---- MODULE Spec2Model ----
(***************************************************************************)
(* A model of the chipchune Furnace decoder (src/chipchune).               *)
(*                                                                         *)
(* Streams are sequences of bytes (0..255) with a cursor `pos` that counts *)
(* the bytes already consumed, as io.BytesIO does.  Every primitive read   *)
(* returns a record [ok, val, pos]: ok = FALSE is the struct.error that    *)
(* struct.unpack raises on a short read.                                   *)
(*                                                                         *)
(* The module holds several specifications, one per part of the decoder:   *)
(*   PatSpec     FurnaceModule.__read_patterns on one pattern block        *)
(*   EqSpec      one authored pattern stored as PATR and as PATN           *)
(*   CompatSpec  __init_compat_flags and the three __read_compat_flags     *)
(*   ChipSpec    __convert_old_chip_flags and __read_dev119_chip_flags     *)
(*   MacroSpec   the legacy and the featural macro decoders                *)
(*   WaveSpec    FurnaceWavetable.load_from_stream                         *)
(***************************************************************************)
EXTENDS Integers, Sequences, FiniteSets, TLC

\* ------------------------------------------------------------------------
\* Helpers
\* ------------------------------------------------------------------------

Min(a, b) == IF a < b THEN a ELSE b

\* bool(x & m) for a mask m that is a power of two
BitSet(x, m) == (x \div m) % 2 = 1

\* s with e inserted before index i (0-based), as list.insert(i, e) does for
\* i >= 0: an index past the end appends
ListInsert(s, i, e) ==
    LET k == Min(i, Len(s))
    IN  SubSeq(s, 1, k) \o <<e>> \o SubSeq(s, k + 1, Len(s))

RECURSIVE Concat(_)
Concat(ss) == IF ss = <<>> THEN <<>> ELSE Head(ss) \o Concat(Tail(ss))

\* the sequences over S of length 0..n
SeqsUpTo(S, n) == UNION {[1..k -> S] : k \in 0..n}

\* ------------------------------------------------------------------------
\* Primitive reader (src/chipchune/_util.py)
\* ------------------------------------------------------------------------

\* stream.read(n): a short read at the end of the stream is not an error
stream_read(s, p, n) ==
    LET q == IF n > Len(s) - p THEN Len(s) ELSE p + n
    IN  [bytes |-> SubSeq(s, p + 1, q), pos |-> q]

read_byte(s, p) ==
    IF p + 1 <= Len(s)
    THEN [ok |-> TRUE, val |-> s[p + 1], pos |-> p + 1]
    ELSE [ok |-> FALSE, val |-> 0, pos |-> Len(s)]

\* read_short(file): unsigned little-endian 16 bit
read_short(s, p) ==
    IF p + 2 <= Len(s)
    THEN [ok |-> TRUE, val |-> s[p + 1] + 256 * s[p + 2], pos |-> p + 2]
    ELSE [ok |-> FALSE, val |-> 0, pos |-> Len(s)]

\* read_int(file): unsigned little-endian 32 bit.  The value n is kept
\* exactly, as <<"int", hi, lo>> with n = hi * 65536 + lo and lo in 0..65535
read_int(s, p) ==
    IF p + 4 <= Len(s)
    THEN [ok |-> TRUE,
          val |-> <<"int", s[p + 3] + 256 * s[p + 4], s[p + 1] + 256 * s[p + 2]>>,
          pos |-> p + 4]
    ELSE [ok |-> FALSE, val |-> <<"int", 0, 0>>, pos |-> Len(s)]

\* a value of read_int where the code uses it as a number of bytes, a number
\* of items or an offset in a stream: a value of 2^31 or more stands for
\* 2^31 - 1, which is past the end of every stream
size_of(x) == IF x[2] >= 32768 THEN 2147483647 ELSE x[2] * 65536 + x[3]

\* x + k for a value of read_int and a small k >= 0
int_add(x, k) == <<"int", x[2] + ((x[3] + k) \div 65536), (x[3] + k) % 65536>>

\* the offset after the first zero byte at or after offset p
first_zero(s, p) ==
    CHOOSE i \in (p + 1)..Len(s) :
        s[i] = 0 /\ \A j \in (p + 1)..(i - 1) : s[j] # 0

\* the length of a UTF-8 sequence by its first byte x; 0 for a byte that
\* starts none (a continuation byte, c0, c1, f5..ff)
utf8_lead(x) ==
    IF x < 128 THEN 1
    ELSE IF x \in 194..223 THEN 2
    ELSE IF x \in 224..239 THEN 3
    ELSE IF x \in 240..244 THEN 4
    ELSE 0

\* the values of byte k after the first byte x that the strict decoder of
\* bytes.decode('utf-8') accepts: no overlong form (e0, f0), no surrogate
\* (ed), nothing above U+10FFFF (f4)
utf8_tail(x, k) ==
    IF k > 1 THEN 128..191
    ELSE (IF x = 224 THEN 160 ELSE IF x = 240 THEN 144 ELSE 128)
             ..(IF x = 237 THEN 159 ELSE IF x = 244 THEN 143 ELSE 191)

\* w when w bytes of an accepted sequence start at index i of b, else 0
utf8_seq(b, i, w) ==
    IF /\ w > 0 /\ i + w - 1 <= Len(b)
       /\ \A k \in 1..(w - 1) : b[i + k] \in utf8_tail(b[i], k)
    THEN w
    ELSE 0

\* the length of the UTF-8 sequence that starts at index i of b, 0 when
\* there is none
utf8_width(b, i) == utf8_seq(b, i, utf8_lead(b[i]))

\* the part of the code point that byte k of a sequence of w bytes holds
utf8_bits(b, i, k, w) ==
    IF k < w THEN (b[i + k] - 128) * (64 ^ (w - 1 - k)) ELSE 0

\* the code point of the sequence of w bytes at index i
code_point(b, i, w) ==
    (b[i] - <<0, 192, 224, 240>>[w]) * (64 ^ (w - 1))
        + utf8_bits(b, i, 1, w) + utf8_bits(b, i, 2, w) + utf8_bits(b, i, 3, w)

\* the code point c before the code points r of the bytes after it
utf8_cons(c, r) == [ok |-> r.ok, val |-> <<c>> \o r.val]

RECURSIVE utf8_from(_, _)

\* the sequence of w bytes at index i and the bytes after it; the decoder
\* raises UnicodeDecodeError where no sequence starts (w = 0)
utf8_step(b, i, w) ==
    IF w = 0 THEN [ok |-> FALSE, val |-> <<>>]
    ELSE utf8_cons(code_point(b, i, w), utf8_from(b, i + w))

\* the code points of the bytes of b from index i on; ok = FALSE where the
\* decoder raises UnicodeDecodeError
utf8_from(b, i) ==
    IF i > Len(b) THEN [ok |-> TRUE, val |-> <<>>]
    ELSE utf8_step(b, i, utf8_width(b, i))

\* buffer.decode('utf-8'): a str is the sequence of its code points
utf8_decode(b) ==
    IF \A i \in 1..Len(b) : b[i] < 128 THEN [ok |-> TRUE, val |-> b]
    ELSE utf8_from(b, 1)

\* the UTF-8 form of the code point c
utf8_bytes(c) ==
    IF c < 128 THEN <<c>>
    ELSE IF c < 2048 THEN <<192 + (c \div 64), 128 + (c % 64)>>
    ELSE IF c < 65536
    THEN <<224 + (c \div 4096), 128 + ((c \div 64) % 64), 128 + (c % 64)>>
    ELSE <<240 + (c \div 262144), 128 + ((c \div 4096) % 64),
           128 + ((c \div 64) % 64), 128 + (c % 64)>>

\* text.encode('utf-8')
utf8_encode(t) == Concat([i \in 1..Len(t) |-> utf8_bytes(t[i])])

\* the str of the decode d of the bytes before the zero byte that ends at
\* offset z
str_of(d, z) ==
    [ok |-> d.ok, hang |-> FALSE, bad |-> ~d.ok,
     val |-> IF d.ok THEN d.val ELSE <<>>, pos |-> z]

\* the bytes from offset p to the zero byte that ends at offset z, decoded
str_until(s, p, z) == str_of(utf8_decode(SubSeq(s, p + 1, z - 1)), z)

\* read_str(file): bytes up to a zero byte, decoded as UTF-8.  At the end of
\* the stream file.read(1) returns b'' for ever and the loop never ends:
\* hang = TRUE.  Bytes that are not UTF-8 raise UnicodeDecodeError after the
\* terminator is read: bad = TRUE.  ok = TRUE when the call returns, and val
\* is then the text before the terminator.
read_str(s, p) ==
    IF \A i \in (p + 1)..Len(s) : s[i] # 0
    THEN [ok |-> FALSE, hang |-> TRUE, bad |-> FALSE, val |-> <<>>, pos |-> Len(s)]
    ELSE str_until(s, p, first_zero(s, p))

\* ------------------------------------------------------------------------
\* Pattern rows (src/chipchune/furnace/data_types.py, enums.py)
\* ------------------------------------------------------------------------

\* enums.Note
Note_none == 0
Note_C == 12
Note_OFF == 100
Note_OFF_REL == 101
Note_REL == 102
NoteValues == (0..12) \cup {Note_OFF, Note_OFF_REL, Note_REL}

\* the "unset" value of instrument, volume, effect command and effect value
UNSET == 65535

FurnaceRow(note, octave, instrument, volume, effects) ==
    [note |-> note, octave |-> octave, instrument |-> instrument,
     volume |-> volume, effects |-> effects]

FurnacePattern(channel, index, subsong, data, name) ==
    [channel |-> channel, index |-> index, subsong |-> subsong,
     data |-> data, name |-> name]

\* empty_row = lambda: FurnaceRow(Note.__, 0, 0xffff, 0xffff, [(0xffff,0xffff)] * effect_columns)
empty_row_zeroed(effect_columns) ==
    FurnaceRow(Note_none, 0, 0, 0, [i \in 1..effect_columns |-> <<0, 0>>])

empty_row(effect_columns) ==
    FurnaceRow(Note_none, 0, UNSET, UNSET,
               [i \in 1..effect_columns |-> <<UNSET, UNSET>>])

\* skip = (char & 0x7f) + 2
skip_rows_off_by_one(char) == (char % 128) + 1

skip_rows(char) == (char % 128) + 2

\* the note and octave of a present note byte, the remainder 0 kept as the
\* note value 0 instead of C
decode_note_zero_remainder_kept(raw_note) ==
    IF raw_note = 180 THEN [note |-> Note_OFF, octave |-> 0]
    ELSE IF raw_note = 181 THEN [note |-> Note_OFF_REL, octave |-> 0]
    ELSE IF raw_note = 182 THEN [note |-> Note_REL, octave |-> 0]
    ELSE [note |-> raw_note % 12, octave |-> (raw_note \div 12) - 5]

\* the note and octave of a present note byte
decode_note(raw_note) ==
    IF raw_note = 180 THEN [note |-> Note_OFF, octave |-> 0]
    ELSE IF raw_note = 181 THEN [note |-> Note_OFF_REL, octave |-> 0]
    ELSE IF raw_note = 182 THEN [note |-> Note_REL, octave |-> 0]
    ELSE [note |-> IF raw_note % 12 = 0 THEN 12 ELSE raw_note % 12,
          octave |-> (raw_note \div 12) - 5]

\* ------------------------------------------------------------------------
\* Sparse rows, version >= 157 (module.py, __read_patterns, 943-1035)
\* ------------------------------------------------------------------------

\* a field that is read only when its presence bit is set, else "unset"
opt_byte(blk, p, present) ==
    IF present THEN read_byte(blk, p)
    ELSE [ok |-> TRUE, val |-> UNSET, pos |-> p]

\* effect_present_list and effect_val_present_list, 1-based here.  c is the
\* control byte, f1 and f2 the second and third flag bytes (0 when absent).
effect_present_list(c, f1, f2) ==
    <<BitSet(c, 8), BitSet(f1, 4), BitSet(f1, 16), BitSet(f1, 64),
      BitSet(f2, 1), BitSet(f2, 4), BitSet(f2, 16), BitSet(f2, 64)>>

effect_val_present_list(c, f1, f2) ==
    <<BitSet(c, 16), BitSet(f1, 8), BitSet(f1, 32), BitSet(f1, 128),
      BitSet(f2, 2), BitSet(f2, 8), BitSet(f2, 32), BitSet(f2, 128)>>

\* the loop over enumerate(zip(effect_present_list, effect_val_present_list)):
\* columns i < min(8, effect_columns) are read, in order
RECURSIVE read_effects(_, _, _, _, _, _, _)
read_effects(blk, p, i, n, epl, evl, acc) ==
    IF i >= n THEN [ok |-> TRUE, val |-> acc, pos |-> p]
    ELSE LET cmd == opt_byte(blk, p, epl[i + 1])
             val == opt_byte(blk, cmd.pos, evl[i + 1])
         IN  IF ~cmd.ok THEN [ok |-> FALSE, val |-> acc, pos |-> cmd.pos]
             ELSE IF ~val.ok THEN [ok |-> FALSE, val |-> acc, pos |-> val.pos]
             ELSE read_effects(blk, val.pos, i + 1, n, epl, evl,
                               Append(acc, <<cmd.val, val.val>>))

\* One pass of the body of `while row_idx < num_rows` at cursor p.
\*   kind "end"    0xff was read (break)
\*        "skip"   a run of empty rows
\*        "row"    one explicit row
\*        "error"  struct.error on a short read, or a failed assert
sparse_record(blk, p, effect_columns) ==
    LET c   == read_byte(blk, p)
        ch  == c.val
        fl1 == IF BitSet(ch, 32) THEN read_byte(blk, c.pos)
               ELSE [ok |-> TRUE, val |-> 0, pos |-> c.pos]
        fl2 == IF BitSet(ch, 64) THEN read_byte(blk, fl1.pos)
               ELSE [ok |-> TRUE, val |-> 0, pos |-> fl1.pos]
        asserts == BitSet(ch, 32) =>
                      /\ BitSet(ch, 8) = BitSet(fl1.val, 1)
                      /\ BitSet(ch, 16) = BitSet(fl1.val, 2)
        nt  == opt_byte(blk, fl2.pos, BitSet(ch, 1))
        no  == IF BitSet(ch, 1) THEN decode_note(nt.val)
               ELSE [note |-> Note_none, octave |-> 0]
        ins == opt_byte(blk, nt.pos, BitSet(ch, 2))
        vol == opt_byte(blk, ins.pos, BitSet(ch, 4))
        fx  == read_effects(blk, vol.pos, 0, Min(8, effect_columns),
                            effect_present_list(ch, fl1.val, fl2.val),
                            effect_val_present_list(ch, fl1.val, fl2.val),
                            <<>>)
        bad(q) == [kind |-> "error", char |-> ch, pos |-> q, rows |-> <<>>]
    IN  IF ~c.ok THEN [kind |-> "error", char |-> -1, pos |-> c.pos, rows |-> <<>>]
        ELSE IF ch = 255 THEN [kind |-> "end", char |-> ch, pos |-> c.pos, rows |-> <<>>]
        ELSE IF ch >= 128
        THEN [kind |-> "skip", char |-> ch, pos |-> c.pos,
              rows |-> [i \in 1..skip_rows(ch) |-> empty_row(effect_columns)]]
        ELSE IF ~fl1.ok THEN bad(fl1.pos)
        ELSE IF ~asserts THEN bad(fl1.pos)
        ELSE IF ~fl2.ok THEN bad(fl2.pos)
        ELSE IF ~nt.ok THEN bad(nt.pos)
        ELSE IF ~ins.ok THEN bad(ins.pos)
        ELSE IF ~vol.ok THEN bad(vol.pos)
        ELSE IF ~fx.ok THEN bad(fx.pos)
        ELSE [kind |-> "row", char |-> ch, pos |-> fx.pos,
              rows |-> <<FurnaceRow(no.note, no.octave, ins.val, vol.val,
                            fx.val \o [i \in 1..(effect_columns - Len(fx.val))
                                          |-> <<UNSET, UNSET>>])>>]

\* "fill the rest of the pattern with EMPTY"
fill_rows(row_idx, num_rows, effect_columns) ==
    [i \in 1..(IF row_idx < num_rows THEN num_rows - row_idx ELSE 0)
        |-> empty_row(effect_columns)]

\* ------------------------------------------------------------------------
\* Fixed-width rows, version < 157 (module.py, __read_patterns, 907-919)
\* ------------------------------------------------------------------------

RECURSIVE read_short_pairs(_, _, _, _)
read_short_pairs(blk, p, n, acc) ==
    IF n = 0 THEN [ok |-> TRUE, val |-> acc, pos |-> p]
    ELSE LET cmd == read_short(blk, p)
             val == read_short(blk, cmd.pos)
         IN  IF ~cmd.ok \/ ~val.ok THEN [ok |-> FALSE, val |-> acc, pos |-> Len(blk)]
             ELSE read_short_pairs(blk, val.pos, n - 1,
                                   Append(acc, <<cmd.val, val.val>>))

\* One pass of the body of `for _ in range(num_rows)`.  effcols is
\* subsongs[subsong].effect_columns, indexed by the channel inside the loop.
old_row(blk, p, effcols, channel) ==
    LET nt  == read_short(blk, p)
        oc  == read_short(blk, nt.pos)
        ins == read_short(blk, oc.pos)
        vol == read_short(blk, ins.pos)
        fx  == read_short_pairs(blk, vol.pos, effcols[channel + 1], <<>>)
        bad(q) == [ok |-> FALSE, pos |-> q, row |-> <<>>]
    IN  IF ~nt.ok THEN bad(nt.pos)
        ELSE IF nt.val \notin NoteValues THEN bad(nt.pos)
        ELSE IF ~oc.ok THEN bad(oc.pos)
        ELSE IF ~ins.ok THEN bad(ins.pos)
        ELSE IF ~vol.ok THEN bad(vol.pos)
        ELSE IF channel + 1 > Len(effcols) THEN bad(vol.pos)
        ELSE IF ~fx.ok THEN bad(fx.pos)
        ELSE [ok |-> TRUE, pos |-> fx.pos,
              row |-> FurnaceRow(nt.val,
                                 oc.val + (IF nt.val = Note_C THEN 1 ELSE 0),
                                 ins.val, vol.val, fx.val)]

\* ------------------------------------------------------------------------
\* State
\* ------------------------------------------------------------------------

VARIABLES
    \* FurnaceModule.__read_patterns on one pattern block
    version,      \* self.meta.version
    subsongs,     \* self.subsongs: pattern_length and effect_columns of each
    patr_blk,     \* the bytes of the block after its size field
    pos,          \* cursor in patr_blk
    new_patr,     \* the FurnacePattern being filled
    num_rows,     \* pattern_length of the pattern's subsong
    row_idx,      \* row_idx of the sparse loop
    char,         \* the last control byte read by the sparse loop, -1 if none
    patterns,     \* self.patterns
    ppc,          \* "start", "old_rows", "sparse", "fill", "done", "error", "hang"
    \* one authored pattern, stored and decoded in both row encodings
    authored,     \* the pattern as authored
    eq_old,       \* what a module of version 156 decodes from its PATR block
    eq_new,       \* what a module of version 157 decodes from its PATN block
    eqpc,         \* "start", "done"
    \* one authored macro, stored and decoded in both instrument layouts
    mac_authored, \* the macro as authored, with the format version it is saved as
    ins_stream,   \* the legacy "INST" block holding it
    ma_stream,    \* the "MA" feature block holding it
    mac_old,      \* what __load_format_0_embed decodes from ins_stream
    mac_new,      \* what __common_ma_block decodes from ma_stream
    mpc,          \* "start", "legacy", "done"
    \* the compat flags of one module: __init_compat_flags, then the phases of
    \* __read_compat_flags on the flag regions of the INFO block
    cf_version,   \* self.meta.version
    cf_stream,    \* the flag regions of the INFO block, one after the other
    cf_pos,       \* cursor in cf_stream
    compat_flags, \* self.compat_flags
    cf_log,       \* the flags read so far, each with the offset of its byte
    cf_call,      \* the last call: phase, cursor before it, cursor after its
                  \* flag bytes, compat_flags_to_skip at its end
    cf_patchbay,  \* the INFO block from the byte read into auto_patchbay
    cpc,          \* "start", "init", "p1", "p2", "patchbay", "p3", "error"
    \* the flags of one chip, stored as a packed word and as a FLAG block
    chip_type,    \* self.chips.list[i].type
    chip_word,    \* the packed flag word of INFO, as <<high 16 bits, low 16 bits>>
    chip_stream,  \* the stream that holds the FLAG block
    chip_flag_ptr, \* self.__chip_flag_ptr[i]
    chip_old,     \* the flags __convert_old_chip_flags gives for chip_word
    chip_new,     \* the flags __read_dev119_chip_flags gives for the block
    chpc,         \* "start", "old", "done"
    \* one wavetable, stored as a standalone file and as an embedded block
    wave_name,    \* the name stored in the block
    wave_w,       \* the on-disk width field
    wave_h,       \* the on-disk height field
    wave_vals,    \* the amplitude values stored after the height field
    wave_size,    \* the size field: "none" (0), "exact" or "short"
    wave_ptr,     \* self.__wavetable_ptr[i]: the offset of the embedded block
    wave_file_stream,  \* the stream of the standalone file
    wave_embed_stream, \* the stream of the module that embeds the block
    wave_file,    \* the FurnaceWavetable loaded with import type FILE
    wave_embed,   \* the FurnaceWavetable loaded with import type EMBED, or "break"
    wvpc,         \* "start", "file", "done"
    \* one instrument in the featural layout, decoded, encoded and decoded
    fins_src,     \* the stream the instrument is first loaded from
    fins_form,    \* its import type: "FORMAT_1_FILE" or "FORMAT_1_EMBED"
    fins_rule,    \* how the encoding counts the position of a marker
    fins_first,   \* the FurnaceInstrument loaded from fins_src
    fins_bytes,   \* the featural encoding of fins_first
    fins_second,  \* the FurnaceInstrument loaded from fins_bytes
    fpc,          \* "start", "first", "encoded", "done"
    \* one call of a primitive reader
    rd_stream,    \* the bytes of the stream
    rd_op,        \* the reader called
    rd_start,     \* the offset of the stream when the reader is called
    rd_pos,       \* the offset of the stream
    rd_buffer,    \* buffer of read_str
    rd_char,      \* char of read_str: what file.read(1) returned last
    rd_iter,      \* the number of times the body of the while loop has run
    rd_result,    \* the value returned
    rdpc,         \* "call", "loop", "done", "error"
    \* a FurnaceModule that is loaded more than once
    mod_stream,   \* the stream of the load in progress or of the last load
    mod_self,     \* the FurnaceModule that load_from_stream is called on
    mod_before,   \* the FurnaceModule as it was when the load was called
    mod_new,      \* a new FurnaceModule that loads the same stream
    mod_loads,    \* the number of calls of load_from_stream so far
    mod_st,       \* "ok", or what the load raised
    mod_seeks,    \* the offsets the pointer loops of the load have sought
    mod_clean,    \* no load so far has raised
    modpc,        \* "new", the step of the load, "done", "error"
    \* the speed pattern and the grooves of the INFO block
    grv_blk,      \* the bytes of info_blk from the speed pattern on
    grv_r,        \* the module and the offset of info_blk
    grv_left,     \* the grooves still to read
    grv_prev,     \* the offset of info_blk before the last record
    grv_kind,     \* what was read last: "speed", "count" or "groove"
    grvpc,        \* "speed", "count", "groove", "done", "error"
    \* the while loop of __load_format_1, one feature at a time
    fl_stream,    \* the instrument data: version, type, feature blocks
    fl_pos,       \* the offset of the stream
    fl_prev,      \* the offset of the stream before the last feature read
    fl_features,  \* self.features
    flpc,         \* "loop", "done", or the exception raised
    \* one call of __load_sn_block
    sn_stream,    \* the bytes of the feature block
    sn_version,   \* self.meta.version
    sn_feat,      \* the feature returned, or the exception raised
    snpc,         \* "call", "done"
    \* furnace_pattern_to_sequence, one row at a time
    seq_data,        \* pattern.data
    seq_i,           \* the rows taken by the for loop
    seq_converted,   \* converted
    seq_last_volume, \* last_volume
    seqpc            \* "loop", "done"

patVars == <<version, subsongs, patr_blk, pos, new_patr, num_rows, row_idx,
             char, patterns, ppc>>

eqVars == <<authored, eq_old, eq_new, eqpc>>

macVars == <<mac_authored, ins_stream, ma_stream, mac_old, mac_new, mpc>>

compatVars == <<cf_version, cf_stream, cf_pos, compat_flags, cf_log, cf_call,
               cf_patchbay, cpc>>

chipVars == <<chip_type, chip_word, chip_stream, chip_flag_ptr, chip_old, chip_new, chpc>>

waveVars == <<wave_name, wave_w, wave_h, wave_vals, wave_size, wave_ptr, wave_file_stream, wave_embed_stream, wave_file, wave_embed, wvpc>>

finsVars == <<fins_src, fins_form, fins_rule, fins_first, fins_bytes, fins_second, fpc>>

rdVars == <<rd_stream, rd_op, rd_start, rd_pos, rd_buffer, rd_char, rd_iter, rd_result, rdpc>>

modVars ==
    <<mod_stream, mod_self, mod_before, mod_new, mod_loads, mod_st, mod_seeks,
      mod_clean, modpc>>

grvVars == <<grv_blk, grv_r, grv_left, grv_prev, grv_kind, grvpc>>

flVars == <<fl_stream, fl_pos, fl_prev, fl_features, flpc>>

snVars == <<sn_stream, sn_version, sn_feat, snpc>>

seqVars == <<seq_data, seq_i, seq_converted, seq_last_volume, seqpc>>

vars == <<patVars, eqVars, macVars, compatVars, chipVars, waveVars, finsVars, rdVars, modVars, grvVars, flVars, snVars, seqVars>>

nonPatVars == <<eqVars, macVars, compatVars, chipVars, waveVars, finsVars, rdVars, modVars, grvVars, flVars, snVars, seqVars>>

nonEqVars == <<patVars, macVars, compatVars, chipVars, waveVars, finsVars, rdVars, modVars, grvVars, flVars, snVars, seqVars>>

nonMacVars == <<patVars, eqVars, compatVars, chipVars, waveVars, finsVars, rdVars, modVars, grvVars, flVars, snVars, seqVars>>

nonCompatVars == <<patVars, eqVars, macVars, chipVars, waveVars, finsVars, rdVars, modVars, grvVars, flVars, snVars, seqVars>>

nonChipVars == <<patVars, eqVars, macVars, compatVars, waveVars, finsVars, rdVars, modVars, grvVars, flVars, snVars, seqVars>>

nonWaveVars == <<patVars, eqVars, macVars, compatVars, chipVars, finsVars, rdVars, modVars, grvVars, flVars, snVars, seqVars>>

nonFinsVars == <<patVars, eqVars, macVars, compatVars, chipVars, waveVars, rdVars, modVars, grvVars, flVars, snVars, seqVars>>

nonRdVars == <<patVars, eqVars, macVars, compatVars, chipVars, waveVars, finsVars, modVars, grvVars, flVars, snVars, seqVars>>

nonModVars == <<patVars, eqVars, macVars, compatVars, chipVars, waveVars, finsVars, rdVars, grvVars, flVars, snVars, seqVars>>

nonGrvVars == <<patVars, eqVars, macVars, compatVars, chipVars, waveVars, finsVars, rdVars, modVars, flVars, snVars, seqVars>>

nonFlVars == <<patVars, eqVars, macVars, compatVars, chipVars, waveVars, finsVars, rdVars, modVars, grvVars, snVars, seqVars>>

nonSnVars == <<patVars, eqVars, macVars, compatVars, chipVars, waveVars, finsVars, rdVars, modVars, grvVars, flVars, seqVars>>

nonSeqVars == <<patVars, eqVars, macVars, compatVars, chipVars, waveVars, finsVars, rdVars, modVars, grvVars, flVars, snVars>>

\* ------------------------------------------------------------------------
\* PatSpec: __read_patterns
\* ------------------------------------------------------------------------

\* bounds of the pattern streams
MaxBody == 4
OldRowsCut == 1

U16(x) == <<x % 256, x \div 256>>

\* versions on both sides of 51 (pattern name), 95 (subsongs), 157 (sparse)
PatVersions == {50, 94, 156, 157}

\* the subsongs that __read_info and __read_subsongs left: before version 95
\* there is only subsong 0
PatSubsongs(v) ==
    IF v < 95
    THEN << [pattern_length |-> 3, effect_columns |-> <<1, 2, 5>>] >>
    ELSE << [pattern_length |-> 3, effect_columns |-> <<1, 2, 5>>],
            [pattern_length |-> 4, effect_columns |-> <<2, 1, 1>>] >>

\* control bytes, flag bytes and values of the sparse bodies: 0x00 (a row with
\* nothing present, the value 0), 0x02 (instrument), 0x05 (note and volume;
\* as a second flag byte: effect 0 and effect 1 command), 0x28 (effect 0
\* command, second flag byte follows), 0x3c (60, the note C-0), 0x40 (third
\* flag byte follows), 0x80 and 0x83 (runs of 2 and 5 rows), 0xff (end)
SparseBytes == {0, 2, 5, 40, 60, 64, 128, 131, 255}

PatNames == {<<>>, <<80>>}

SparseBlocks(v) ==
    {<<ss, ch>> \o U16(1) \o nm \o <<0>> \o body :
        ss \in 0..(Len(PatSubsongs(v)) - 1), ch \in 0..2, nm \in {<<>>},
        body \in SeqsUpTo(SparseBytes, MaxBody)}

\* fixed-width rows: an empty row, C-4 with instrument, volume and effects,
\* B at octave -1, and a note value outside enums.Note
OldRowBytes(e) ==
    { U16(0) \o U16(0) \o U16(UNSET) \o U16(UNSET)
        \o Concat([i \in 1..e |-> U16(UNSET) \o U16(UNSET)]),
      U16(12) \o U16(3) \o U16(1) \o U16(0)
        \o Concat([i \in 1..e |-> U16(15) \o U16(i)]),
      U16(11) \o U16(65535) \o U16(UNSET) \o U16(64)
        \o Concat([i \in 1..e |-> U16(UNSET) \o U16(0)]),
      U16(13) \o U16(0) \o U16(0) \o U16(0)
        \o Concat([i \in 1..e |-> U16(0) \o U16(0)]) }

OldBlocks(v) ==
    UNION { { LET full == U16(ch) \o U16(1) \o U16(ss) \o U16(0)
                          \o Concat(rows) \o nm \o <<0>>
              IN  SubSeq(full, 1, Len(full) - cut) :
                rows \in [1..PatSubsongs(v)[ss + 1].pattern_length
                            -> OldRowBytes(PatSubsongs(v)[ss + 1].effect_columns[ch + 1])],
                nm \in PatNames, cut \in 0..OldRowsCut } :
            ss \in 0..(Len(PatSubsongs(v)) - 1), ch \in 0..1 }

PatIdle ==
    /\ version = 0 /\ subsongs = <<>> /\ patr_blk = <<>> /\ pos = 0
    /\ new_patr = FurnacePattern(0, 0, 0, <<>>, <<>>)
    /\ num_rows = 0 /\ row_idx = 0 /\ char = -1 /\ patterns = <<>>
    /\ ppc = "idle"

EqIdle ==
    /\ authored = FurnacePattern(0, 0, 0, <<>>, <<>>)
    /\ eq_old = [st |-> "idle"] /\ eq_new = [st |-> "idle"] /\ eqpc = "idle"

MacIdle ==
    /\ mac_authored = [version |-> 0] /\ ins_stream = <<>> /\ ma_stream = <<>>
    /\ mac_old = [st |-> "idle"] /\ mac_new = [st |-> "idle"] /\ mpc = "idle"

CompatIdle ==
    /\ cf_version = 0 /\ cf_stream = <<>> /\ cf_pos = 0
    /\ compat_flags = [st |-> "idle"] /\ cf_log = <<>>
    /\ cf_call = [phase |-> 0] /\ cf_patchbay = <<>> /\ cpc = "idle"

ChipIdle ==
    /\ chip_type = "" /\ chip_word = <<0, 0>> /\ chip_stream = <<>>
    /\ chip_flag_ptr = 0 /\ chip_old = {} /\ chip_new = [st |-> "idle"]
    /\ chpc = "idle"

WaveIdle ==
    /\ wave_name = <<>> /\ wave_w = 0 /\ wave_h = <<>> /\ wave_vals = <<>>
    /\ wave_size = "" /\ wave_ptr = 0
    /\ wave_file_stream = <<>> /\ wave_embed_stream = <<>>
    /\ wave_file = [st |-> "idle"] /\ wave_embed = [st |-> "idle"]
    /\ wvpc = "idle"

FinsIdle ==
    /\ fins_src = <<>> /\ fins_form = "" /\ fins_rule = ""
    /\ fins_first = [st |-> "idle"] /\ fins_bytes = <<>>
    /\ fins_second = [st |-> "idle"] /\ fpc = "idle"

RdIdle ==
    /\ rd_stream = <<>> /\ rd_op = "" /\ rd_start = 0 /\ rd_pos = 0
    /\ rd_buffer = <<>> /\ rd_char = <<>> /\ rd_iter = 0 /\ rd_result = <<>>
    /\ rdpc = "idle"

ModIdle ==
    /\ mod_stream = <<>> /\ mod_self = <<>> /\ mod_before = <<>>
    /\ mod_new = <<>> /\ mod_loads = 0 /\ mod_st = "" /\ mod_seeks = <<>>
    /\ mod_clean = TRUE /\ modpc = "idle"

GrvIdle ==
    /\ grv_blk = <<>> /\ grv_r = <<>> /\ grv_left = 0 /\ grv_prev = 0
    /\ grv_kind = "" /\ grvpc = "idle"

FlIdle ==
    /\ fl_stream = <<>> /\ fl_pos = 0 /\ fl_prev = 0 /\ fl_features = <<>>
    /\ flpc = "idle"

SnIdle ==
    /\ sn_stream = <<>> /\ sn_version = 0 /\ sn_feat = [st |-> "idle"]
    /\ snpc = "idle"

SeqIdle ==
    /\ seq_data = <<>> /\ seq_i = 0 /\ seq_converted = <<>>
    /\ seq_last_volume = 0 /\ seqpc = "idle"

\* every part of the decoder but g is at rest
OthersIdle(g) ==
    /\ IF g = "pat" THEN TRUE ELSE PatIdle
    /\ IF g = "eq" THEN TRUE ELSE EqIdle
    /\ IF g = "mac" THEN TRUE ELSE MacIdle
    /\ IF g = "compat" THEN TRUE ELSE CompatIdle
    /\ IF g = "chip" THEN TRUE ELSE ChipIdle
    /\ IF g = "wave" THEN TRUE ELSE WaveIdle
    /\ IF g = "fins" THEN TRUE ELSE FinsIdle
    /\ IF g = "rd" THEN TRUE ELSE RdIdle
    /\ IF g = "mod" THEN TRUE ELSE ModIdle
    /\ IF g = "grv" THEN TRUE ELSE GrvIdle
    /\ IF g = "fl" THEN TRUE ELSE FlIdle
    /\ IF g = "sn" THEN TRUE ELSE SnIdle
    /\ IF g = "seq" THEN TRUE ELSE SeqIdle

PatInit ==
    /\ OthersIdle("pat")
    /\ version \in PatVersions
    /\ subsongs = PatSubsongs(version)
    /\ patr_blk \in IF version < 157 THEN OldBlocks(version)
                    ELSE SparseBlocks(version)
    /\ pos = 0
    /\ new_patr = FurnacePattern(0, 0, 0, <<>>, <<>>)
    /\ num_rows = 0 /\ row_idx = 0 /\ char = -1
    /\ patterns = <<>>
    /\ ppc = "start"

\* the header of a PATR block, up to `num_rows = ...`
old_header(blk, v, subs) ==
    LET ch == read_short(blk, 0)
        ix == read_short(blk, ch.pos)
        ss == read_short(blk, ix.pos)
        rs == read_short(blk, ss.pos)
    IN  IF ~ch.ok \/ ~ix.ok \/ ~ss.ok THEN [st |-> "error", pos |-> Len(blk)]
        ELSE IF v < 95 /\ ss.val # 0 THEN [st |-> "error", pos |-> ss.pos]
        ELSE IF ~rs.ok THEN [st |-> "error", pos |-> rs.pos]
        ELSE IF ss.val + 1 > Len(subs) THEN [st |-> "error", pos |-> rs.pos]
        ELSE [st |-> "old_rows", pos |-> rs.pos,
              pat |-> FurnacePattern(ch.val, ix.val, ss.val, <<>>, <<>>)]

\* the header of a PATN block whose fields are ss, ch, ix and nm, up to
\* `effect_columns = ...`
new_header_of(blk, subs, ss, ch, ix, nm) ==
    IF ~ss.ok \/ ~ch.ok \/ ~ix.ok THEN [st |-> "error", pos |-> Len(blk)]
    ELSE IF nm.hang THEN [st |-> "hang", pos |-> nm.pos]
    ELSE IF nm.bad THEN [st |-> "error", pos |-> nm.pos]
    ELSE IF ss.val + 1 > Len(subs) THEN [st |-> "error", pos |-> nm.pos]
    ELSE IF ch.val + 1 > Len(subs[ss.val + 1].effect_columns)
    THEN [st |-> "error", pos |-> nm.pos]
    ELSE [st |-> "sparse", pos |-> nm.pos,
          pat |-> FurnacePattern(ch.val, ix.val, ss.val, <<>>, nm.val)]

\* the header of a PATN block: subsong, channel, index and name
new_header(blk, subs) ==
    new_header_of(blk, subs, read_byte(blk, 0), read_byte(blk, 1),
                  read_short(blk, 2), read_str(blk, 4))

\* new_patr = FurnacePattern() and the header fields
PatBegin ==
    /\ ppc = "start"
    /\ LET h == IF version < 157 THEN old_header(patr_blk, version, subsongs)
                ELSE new_header(patr_blk, subsongs)
       IN  /\ ppc' = h.st
           /\ pos' = h.pos
           /\ IF h.st \in {"old_rows", "sparse"}
              THEN /\ new_patr' = h.pat
                   /\ num_rows' = subsongs[h.pat.subsong + 1].pattern_length
              ELSE UNCHANGED <<new_patr, num_rows>>
    /\ UNCHANGED <<version, subsongs, patr_blk, row_idx, char, patterns>>
    /\ UNCHANGED nonPatVars

\* one fixed-width row
PatOldRow ==
    /\ ppc = "old_rows"
    /\ Len(new_patr.data) < num_rows
    /\ LET r == old_row(patr_blk, pos,
                        subsongs[new_patr.subsong + 1].effect_columns,
                        new_patr.channel)
       IN  /\ pos' = r.pos
           /\ IF r.ok
              THEN /\ new_patr' = [new_patr EXCEPT !.data = Append(@, r.row)]
                   /\ ppc' = ppc
              ELSE /\ ppc' = "error"
                   /\ UNCHANGED new_patr
    /\ UNCHANGED <<version, subsongs, patr_blk, num_rows, row_idx, char, patterns>>
    /\ UNCHANGED nonPatVars

\* after the rows: the name (version >= 51) and self.patterns.append
PatOldEnd ==
    /\ ppc = "old_rows"
    /\ Len(new_patr.data) >= num_rows
    /\ LET nm == IF version >= 51 THEN read_str(patr_blk, pos)
                 ELSE [ok |-> TRUE, hang |-> FALSE, bad |-> FALSE,
                       val |-> new_patr.name, pos |-> pos]
       IN  /\ pos' = nm.pos
           /\ IF nm.ok
              THEN /\ new_patr' = [new_patr EXCEPT !.name = nm.val]
                   /\ patterns' = Append(patterns, new_patr')
                   /\ ppc' = "done"
              ELSE /\ ppc' = IF nm.hang THEN "hang" ELSE "error"
                   /\ UNCHANGED <<new_patr, patterns>>
    /\ UNCHANGED <<version, subsongs, patr_blk, num_rows, row_idx, char>>
    /\ UNCHANGED nonPatVars

\* one pass of `while row_idx < num_rows`
PatSparseRecord ==
    /\ ppc = "sparse"
    /\ row_idx < num_rows
    /\ LET r == sparse_record(patr_blk, pos,
                    subsongs[new_patr.subsong + 1].effect_columns[new_patr.channel + 1])
       IN  /\ pos' = r.pos
           /\ char' = r.char
           /\ new_patr' = [new_patr EXCEPT !.data = @ \o r.rows]
           /\ row_idx' = row_idx + Len(r.rows)
           /\ ppc' = CASE r.kind = "error" -> "error"
                       [] r.kind = "end" -> "fill"
                       [] OTHER -> "sparse"
    /\ UNCHANGED <<version, subsongs, patr_blk, num_rows, patterns>>
    /\ UNCHANGED nonPatVars

\* after the loop: fill the rest with empty rows and self.patterns.append
PatSparseEnd ==
    /\ \/ ppc = "fill"
       \/ ppc = "sparse" /\ row_idx >= num_rows
    /\ LET rest == fill_rows(row_idx, num_rows,
                    subsongs[new_patr.subsong + 1].effect_columns[new_patr.channel + 1])
       IN  /\ new_patr' = [new_patr EXCEPT !.data = @ \o rest]
           /\ row_idx' = row_idx + Len(rest)
           /\ patterns' = Append(patterns, new_patr')
    /\ ppc' = "done"
    /\ UNCHANGED <<version, subsongs, patr_blk, pos, num_rows, char>>
    /\ UNCHANGED nonPatVars

PatNext == PatBegin \/ PatOldRow \/ PatOldEnd \/ PatSparseRecord \/ PatSparseEnd

PatSpec == PatInit /\ [][PatNext]_vars

\* ------------------------------------------------------------------------
\* The decode of one whole block, as the loop of the actions above
\* ------------------------------------------------------------------------

RECURSIVE run_old_rows(_, _, _, _, _)
run_old_rows(blk, p, pat, n, effcols) ==
    IF Len(pat.data) >= n THEN [st |-> "old_rows", pos |-> p, pat |-> pat]
    ELSE LET r == old_row(blk, p, effcols, pat.channel)
         IN  IF ~r.ok THEN [st |-> "error", pos |-> r.pos, pat |-> pat]
             ELSE run_old_rows(blk, r.pos,
                               [pat EXCEPT !.data = Append(@, r.row)], n, effcols)

RECURSIVE run_sparse(_, _, _, _, _, _)
run_sparse(blk, p, pat, idx, n, effect_columns) ==
    IF idx >= n THEN [st |-> "fill", pos |-> p, pat |-> pat, row_idx |-> idx]
    ELSE LET r == sparse_record(blk, p, effect_columns)
             q == [pat EXCEPT !.data = @ \o r.rows]
         IN  CASE r.kind = "error" ->
                    [st |-> "error", pos |-> r.pos, pat |-> q, row_idx |-> idx]
               [] r.kind = "end" ->
                    [st |-> "fill", pos |-> r.pos, pat |-> q, row_idx |-> idx]
               [] OTHER ->
                    run_sparse(blk, r.pos, q, idx + Len(r.rows), n, effect_columns)

\* one pass of `for i in self.__pattern_ptr` on the block blk:
\* st = "done" and the pattern appended, or "error", or "hang"
decode_pattern(blk, v, subs) ==
    IF v < 157
    THEN LET h == old_header(blk, v, subs) IN
         IF h.st # "old_rows" THEN [st |-> h.st]
         ELSE LET sub == subs[h.pat.subsong + 1]
                  r   == run_old_rows(blk, h.pos, h.pat, sub.pattern_length,
                                      sub.effect_columns)
                  nm  == IF v >= 51 THEN read_str(blk, r.pos)
                         ELSE [ok |-> TRUE, hang |-> FALSE, val |-> r.pat.name]
              IN  IF r.st = "error" THEN [st |-> "error"]
                  ELSE IF nm.hang THEN [st |-> "hang"]
                  ELSE IF ~nm.ok THEN [st |-> "error"]
                  ELSE [st |-> "done", pat |-> [r.pat EXCEPT !.name = nm.val]]
    ELSE LET h == new_header(blk, subs) IN
         IF h.st # "sparse" THEN [st |-> h.st]
         ELSE LET sub == subs[h.pat.subsong + 1]
                  ec  == sub.effect_columns[h.pat.channel + 1]
                  r   == run_sparse(blk, h.pos, h.pat, 0, sub.pattern_length, ec)
              IN  IF r.st = "error" THEN [st |-> "error"]
                  ELSE [st |-> "done",
                        pat |-> [r.pat EXCEPT !.data =
                                    @ \o fill_rows(r.row_idx, sub.pattern_length, ec)]]

\* the actions of PatSpec and decode_pattern are the same decoder
StepsAgreeWithRun ==
    ppc \in {"done", "error", "hang"} =>
        LET d == decode_pattern(patr_blk, version, subsongs)
        IN  /\ d.st = ppc
            /\ ppc = "done" => patterns = <<d.pat>>

\* ------------------------------------------------------------------------
\* C1..C3: the sparse loop
\* ------------------------------------------------------------------------

\* C1: every decoded pattern has as many rows as the pattern_length of its
\* subsong, in either row encoding.
C1_RowCountIsPatternLength ==
    \A i \in 1..Len(patterns) :
        Len(patterns[i].data) = subsongs[patterns[i].subsong + 1].pattern_length

\* the sparse loop is about to read a control byte b
AtControlByte(b) ==
    /\ ppc = "sparse" /\ row_idx < num_rows
    /\ pos < Len(patr_blk) /\ patr_blk[pos + 1] = b

CurEffectColumns ==
    subsongs[new_patr.subsong + 1].effect_columns[new_patr.channel + 1]

IsFullyEmpty(row, e) ==
    /\ row.note = Note_none /\ row.octave = 0
    /\ row.instrument = 65535 /\ row.volume = 65535
    /\ Len(row.effects) = e
    /\ \A k \in 1..e : row.effects[k] = <<65535, 65535>>

\* the presence bits of the fields of an explicit row in the order in which
\* they are stored: note, instrument, volume, then command and value of each
\* effect column the channel has (at most 8)
StoredFields(b, f1, f2, e) ==
    <<BitSet(b, 1), BitSet(b, 2), BitSet(b, 4)>> \o
    SubSeq(<<BitSet(b, 8), BitSet(b, 16),
             BitSet(f1, 4), BitSet(f1, 8), BitSet(f1, 16), BitSet(f1, 32),
             BitSet(f1, 64), BitSet(f1, 128),
             BitSet(f2, 1), BitSet(f2, 2), BitSet(f2, 4), BitSet(f2, 8),
             BitSet(f2, 16), BitSet(f2, 32), BitSet(f2, 64), BitSet(f2, 128)>>,
           1, 2 * Min(e, 8))

\* the number of present fields among the first k
RECURSIVE PresentBefore(_, _)
PresentBefore(present, k) ==
    IF k = 0 THEN 0
    ELSE PresentBefore(present, k - 1) + (IF present[k] THEN 1 ELSE 0)

\* the fields of a decoded row in the same order
RowFields(row, e) ==
    <<row.instrument, row.volume>> \o
    Concat([k \in 1..Min(e, 8) |-> row.effects[k]])

\* C2: in a sparse-decoded row a field whose presence bit is clear is 0xFFFF
\* (an effect column with neither bit set is (0xFFFF, 0xFFFF), each side on
\* its own), a field whose presence bit is set holds the stored byte, so a
\* stored 0 decodes to 0 and never to the sentinel; every row of a skip run
\* and of the trailing fill is fully empty.
C2_SentinelsAndZeroes ==
    [][ /\ \A b \in 0..127 :
             (AtControlByte(b) /\ Len(new_patr'.data) = Len(new_patr.data) + 1) =>
                LET e    == CurEffectColumns
                    nf1  == IF BitSet(b, 32) THEN 1 ELSE 0
                    nf2  == IF BitSet(b, 64) THEN 1 ELSE 0
                    f1   == IF nf1 = 1 THEN patr_blk[pos + 2] ELSE 0
                    f2   == IF nf2 = 1 THEN patr_blk[pos + 2 + nf1] ELSE 0
                    base == pos + 1 + nf1 + nf2
                    pres == StoredFields(b, f1, f2, e)
                    row  == new_patr'.data[Len(new_patr'.data)]
                    got  == RowFields(row, e)
                IN  /\ Len(row.effects) = e
                    /\ \A k \in 2..Len(pres) :
                          IF pres[k]
                          THEN /\ got[k - 1] = patr_blk[base + PresentBefore(pres, k)]
                               /\ got[k - 1] # 65535
                          ELSE got[k - 1] = 65535
                    /\ \A k \in 9..e : row.effects[k] = <<65535, 65535>>
        /\ (\E b \in 128..254 : AtControlByte(b)) =>
              \A k \in (Len(new_patr.data) + 1)..Len(new_patr'.data) :
                  IsFullyEmpty(new_patr'.data[k], CurEffectColumns)
        /\ (ppc \in {"sparse", "fill"} /\ ppc' = "done") =>
              \A k \in (Len(new_patr.data) + 1)..Len(new_patr'.data) :
                  IsFullyEmpty(new_patr'.data[k], CurEffectColumns)
      ]_vars

\* a skip run of two rows, then an explicit row whose instrument is present
\* and stored as 0 and whose volume is absent
C2_Witness ==
    /\ version >= 157 /\ ppc = "sparse" /\ char = 2
    /\ Len(new_patr.data) = 3
    /\ IsFullyEmpty(new_patr.data[1], CurEffectColumns)
    /\ IsFullyEmpty(new_patr.data[2], CurEffectColumns)
    /\ new_patr.data[3].instrument = 0
    /\ new_patr.data[3].volume = 65535

\* C3: a control byte b in 0x80..0xFE appends exactly (b & 0x7F) + 2 fully
\* empty rows, advances row_idx by as many and consumes only itself (0x83
\* gives 5 rows); 0xFF appends nothing and ends the explicit records.
C3_SkipRun ==
    [][ /\ \A b \in 128..254 :
             AtControlByte(b) =>
                /\ Len(new_patr'.data) = Len(new_patr.data) + (b % 128) + 2
                /\ SubSeq(new_patr'.data, 1, Len(new_patr.data)) = new_patr.data
                /\ \A k \in (Len(new_patr.data) + 1)..Len(new_patr'.data) :
                      IsFullyEmpty(new_patr'.data[k], CurEffectColumns)
                /\ row_idx' = row_idx + (b % 128) + 2
                /\ pos' = pos + 1
                /\ ppc' = "sparse"
        /\ AtControlByte(131) => Len(new_patr'.data) = Len(new_patr.data) + 5
        /\ AtControlByte(255) =>
                /\ new_patr'.data = new_patr.data
                /\ row_idx' = row_idx
                /\ pos' = pos + 1
                /\ ppc' = "fill"
      ]_vars

\* 0x83 was the first control byte: 5 empty rows, one byte consumed
C3_Witness ==
    /\ ppc = "sparse" /\ char = 131
    /\ row_idx = 5 /\ Len(new_patr.data) = 5
    /\ \A k \in 1..5 : IsFullyEmpty(new_patr.data[k], CurEffectColumns)

\* ------------------------------------------------------------------------
\* EqSpec: one authored pattern in both row encodings
\* ------------------------------------------------------------------------

\* The writers of the two encodings are not part of the decoder; they follow
\* the format description (fixed-width rows hold the note C with the octave
\* below, sparse rows hold note and octave in one byte).

\* a signed 16-bit value as it is stored
ToU16(x) == IF x < 0 THEN x + 65536 ELSE x

encode_old_row(row) ==
    U16(row.note)
    \o U16(ToU16(row.octave - (IF row.note = Note_C THEN 1 ELSE 0)))
    \o U16(row.instrument) \o U16(row.volume)
    \o Concat([k \in 1..Len(row.effects) |->
                  U16(row.effects[k][1]) \o U16(row.effects[k][2])])

encode_patr(pat) ==
    U16(pat.channel) \o U16(pat.index) \o U16(pat.subsong) \o U16(0)
    \o Concat([k \in 1..Len(pat.data) |-> encode_old_row(pat.data[k])])
    \o pat.name \o <<0>>

encode_note(row) ==
    CASE row.note = Note_OFF -> 180
      [] row.note = Note_OFF_REL -> 181
      [] row.note = Note_REL -> 182
      [] OTHER -> (row.note % 12) + 12 * (row.octave + 5)

RowIsEmpty(row) ==
    /\ row.note = Note_none /\ row.instrument = UNSET /\ row.volume = UNSET
    /\ \A k \in 1..Len(row.effects) : row.effects[k] = <<UNSET, UNSET>>

\* bit m if the side (1 command, 2 value) of effect column k (0-based) is set
FxBit(row, k, side, m) ==
    IF k + 1 <= Len(row.effects) /\ row.effects[k + 1][side] # UNSET
    THEN m ELSE 0

encode_new_row(row) ==
    LET f1 == FxBit(row, 0, 1, 1) + FxBit(row, 0, 2, 2) + FxBit(row, 1, 1, 4)
              + FxBit(row, 1, 2, 8) + FxBit(row, 2, 1, 16) + FxBit(row, 2, 2, 32)
              + FxBit(row, 3, 1, 64) + FxBit(row, 3, 2, 128)
        f2 == FxBit(row, 4, 1, 1) + FxBit(row, 4, 2, 2) + FxBit(row, 5, 1, 4)
              + FxBit(row, 5, 2, 8) + FxBit(row, 6, 1, 16) + FxBit(row, 6, 2, 32)
              + FxBit(row, 7, 1, 64) + FxBit(row, 7, 2, 128)
        c  == (IF row.note # Note_none THEN 1 ELSE 0)
              + (IF row.instrument # UNSET THEN 2 ELSE 0)
              + (IF row.volume # UNSET THEN 4 ELSE 0)
              + FxBit(row, 0, 1, 8) + FxBit(row, 0, 2, 16)
              + (IF f1 >= 4 THEN 32 ELSE 0) + (IF f2 > 0 THEN 64 ELSE 0)
        opt(present, v) == IF present THEN <<v>> ELSE <<>>
    IN  <<c>> \o opt(f1 >= 4, f1) \o opt(f2 > 0, f2)
        \o opt(row.note # Note_none, encode_note(row))
        \o opt(row.instrument # UNSET, row.instrument)
        \o opt(row.volume # UNSET, row.volume)
        \o Concat([k \in 1..Len(row.effects) |->
                      opt(row.effects[k][1] # UNSET, row.effects[k][1])
                      \o opt(row.effects[k][2] # UNSET, row.effects[k][2])])

\* the number of empty rows from row i on
RECURSIVE EmptyRun(_, _)
EmptyRun(rows, i) ==
    IF i > Len(rows) \/ ~RowIsEmpty(rows[i]) THEN 0
    ELSE 1 + EmptyRun(rows, i + 1)

\* rows from i on: a run of two or more empty rows is one skip byte, empty
\* rows up to the end are left to the 0xff terminator
RECURSIVE encode_new_rows(_, _)
encode_new_rows(rows, i) ==
    IF i > Len(rows) THEN <<255>>
    ELSE LET k == EmptyRun(rows, i)
         IN  IF i + k > Len(rows) THEN <<255>>
             ELSE IF k >= 2 THEN <<128 + (k - 2)>> \o encode_new_rows(rows, i + k)
             ELSE encode_new_row(rows[i]) \o encode_new_rows(rows, i + 1)

encode_patn(pat) ==
    <<pat.subsong, pat.channel>> \o U16(pat.index) \o pat.name \o <<0>>
    \o encode_new_rows(pat.data, 1)

\* authored rows of a channel with e effect columns: an empty row, C#-2 with
\* everything set (instrument 0), C-4 with an effect command only, the note
\* off, C-0, and B in octave -1
AuthoredRows(e) ==
    { empty_row(e),
      FurnaceRow(1, 2, 0, 64, [k \in 1..e |-> <<15, k>>]),
      FurnaceRow(Note_C, 4, 1, UNSET, [k \in 1..e |-> <<0, UNSET>>]),
      FurnaceRow(Note_OFF, 0, UNSET, UNSET, [k \in 1..e |-> <<UNSET, UNSET>>]),
      FurnaceRow(Note_C, 0, 2, UNSET, [k \in 1..e |-> <<UNSET, UNSET>>]),
      FurnaceRow(11, -1, UNSET, 0, [k \in 1..e |-> <<UNSET, 0>>]) }

EqSubsongs == PatSubsongs(157)

AuthoredPatterns ==
    UNION { { FurnacePattern(ch, 1, ss, rows, <<80>>) :
                rows \in [1..EqSubsongs[ss + 1].pattern_length
                            -> AuthoredRows(EqSubsongs[ss + 1].effect_columns[ch + 1])] } :
            ss \in 0..(Len(EqSubsongs) - 1), ch \in 0..2 }

EqInit ==
    /\ OthersIdle("eq")
    /\ authored \in AuthoredPatterns
    /\ eq_old = [st |-> "idle"] /\ eq_new = [st |-> "idle"]
    /\ eqpc = "start"

\* __read_patterns of a version 156 module on the PATR block and of a
\* version 157 module on the PATN block of the same pattern
EqDecodeBoth ==
    /\ eqpc = "start"
    /\ eq_old' = decode_pattern(encode_patr(authored), 156, EqSubsongs)
    /\ eq_new' = decode_pattern(encode_patn(authored), 157, EqSubsongs)
    /\ eqpc' = "done"
    /\ UNCHANGED authored
    /\ UNCHANGED nonEqVars

EqNext == EqDecodeBoth

EqSpec == EqInit /\ [][EqNext]_vars

\* C4: the same authored pattern stored as PATR (version < 157) and as PATN
\* (version >= 157) decodes to equal FurnacePattern objects.
C4_OldAndNewPatternsEqual ==
    eqpc = "done" => /\ eq_old.st = "done" /\ eq_new.st = "done"
                     /\ eq_old.pat = eq_new.pat

\* the sparse decode gives back the authored pattern
SparseDecodesAuthored ==
    eqpc = "done" => eq_new = [st |-> "done", pat |-> authored]

\* without C-0 and negative octaves the two decodes agree
OldAndNewAgreeFromOctaveZero ==
    (eqpc = "done" /\ \A k \in 1..Len(authored.data) :
                          authored.data[k].octave
                            - (IF authored.data[k].note = Note_C THEN 1 ELSE 0) >= 0)
        => eq_old = eq_new

\* ------------------------------------------------------------------------
\* Macros (src/chipchune/furnace/instrument.py)
\* ------------------------------------------------------------------------

\* An element of SingleMacro.data is a Python int or a MacroItem.  An int n
\* is kept as <<"int", hi, lo>> with n = hi * 65536 + lo and lo in 0..65535,
\* which holds the unsigned 32-bit values of the legacy layout as well as
\* negative values; a MacroItem is <<"item", value, 0>>.
MacroItem_LOOP == <<"item", 0, 0>>
MacroItem_RELEASE == <<"item", 1, 0>>

IntVal(n) == <<"int", n \div 65536, n % 65536>>

\* isinstance(x, int)
is_int(x) == x[1] = "int"

\* x - k for a small k >= 0
int_sub(x, k) ==
    <<"int", x[2] + ((x[3] - k) \div 65536), (x[3] - k) % 65536>>

\* x | (1 << 30)
int_or_bit30(x) ==
    IF (x[2] \div 16384) % 2 = 1 THEN x ELSE <<"int", x[2] + 16384, x[3]>>

\* x ^ 0x40000000
int_xor_bit30(x) ==
    IF (x[2] \div 16384) % 2 = 1 THEN <<"int", x[2] - 16384, x[3]>>
    ELSE <<"int", x[2] + 16384, x[3]>>

\* enums.MacroCode
MacroCode_VOL == 0
MacroCode_ARP == 1
MacroCode_DUTY == 2
MacroCode_WAVE == 3
MacroCode_STOP == 255
MacroCodes == (0..19) \cup {MacroCode_STOP}

\* enums.MacroType
MacroType_SEQUENCE == 0
MacroTypes == 0..2

SingleMacro(kind, mode, type, delay, speed, open, data) ==
    [kind |-> kind, mode |-> mode, type |-> type, delay |-> delay,
     speed |-> speed, open |-> open, data |-> data]

\* SingleMacro(kind=kind): the defaults of the dataclass
default_macro(kind) ==
    SingleMacro(kind, 0, MacroType_SEQUENCE, 0, 1, FALSE, <<>>)

\* enums.MacroSize: num_bytes and signed of the word size
MacroSize_num_bytes(ws) == IF ws = 3 THEN 4 ELSE IF ws = 2 THEN 2 ELSE 1
MacroSize_signed(ws) == ws # 0

\* int.from_bytes(b, byteorder='little', signed=signed) for at most four
\* bytes; a short b (stream.read at the end of the stream) is not an error
from_bytes(b, signed) ==
    LET at(i) == IF i <= Len(b) THEN b[i] ELSE 0
        lo == at(1) + 256 * at(2)
        hi == at(3) + 256 * at(4)
        neg == signed /\ Len(b) > 0 /\ b[Len(b)] >= 128
    IN  IF ~neg THEN <<"int", hi, lo>>
        ELSE IF Len(b) = 1 THEN IntVal(lo - 256)
        ELSE IF Len(b) = 2 THEN IntVal(lo - 65536)
        ELSE IF Len(b) = 3 THEN <<"int", hi - 256, lo>>
        ELSE <<"int", hi - 65536, lo>>

MacError == [st |-> "error", macros |-> <<>>]

\* the loop of __common_ma_block for InsFeatureMacro; target_code has been
\* read and the cursor is at p
RECURSIVE ma_block_loop(_, _, _, _)
ma_block_loop(s, p, target_code, macros) ==
    IF target_code = MacroCode_STOP THEN [st |-> "done", macros |-> macros]
    ELSE IF p + 5 > Len(s) THEN MacError
    ELSE
    LET length == s[p + 1]
        loop == s[p + 2]
        release == s[p + 3]
        mode == s[p + 4]
        flags == s[p + 5]
        word_size == (flags \div 64) % 4
        type == (flags \div 2) % 4
        nb == MacroSize_num_bytes(word_size)
        q == p + 7
        content == [i \in 1..length |->
                      from_bytes(stream_read(s, q + nb * (i - 1), nb).bytes,
                                 MacroSize_signed(word_size))]
        with_loop == IF loop # 255 THEN ListInsert(content, loop, MacroItem_LOOP)
                     ELSE content
        with_release == IF release # 255
                        THEN ListInsert(with_loop, release, MacroItem_RELEASE)
                        ELSE with_loop
        e == Min(q + nb * length, Len(s))
        next == read_byte(s, e)
    IN  IF type \notin MacroTypes \/ q > Len(s) THEN MacError
        ELSE IF ~next.ok \/ next.val \notin MacroCodes THEN MacError
        ELSE ma_block_loop(s, next.pos, next.val,
                 Append(macros,
                        SingleMacro(target_code, mode, type, s[p + 6], s[p + 7],
                                    flags % 2 = 1, with_release)))

\* __common_ma_block(stream, InsFeatureMacro): the macros of the block
common_ma_block(s) ==
    LET code == read_byte(s, 2)
    IN  IF Len(s) < 2 \/ ~code.ok \/ code.val \notin MacroCodes THEN MacError
        ELSE ma_block_loop(s, code.pos, code.val, <<>>)

\* --- the legacy layout: __load_format_0_embed ---

\* The legacy block is one run of fields at offsets that depend on the
\* version and on the macro lengths stored in the block.  Every field is
\* read with read_byte, read_short or read_int, which raise on a short read,
\* and the reads are contiguous, so the load raises exactly when the block
\* ends before the last field or a byte is no member of its enum; the fields
\* are therefore fetched by offset (a byte past the end reads as 0).  A field
\* is stored in the instrument when it ends at or before the offset where
\* the load raises (read_limit), and self.features keeps what was appended.
byte_at(s, p) == IF p + 1 <= Len(s) THEN s[p + 1] ELSE 0

\* read_int as a macro value
int_at(s, p) ==
    <<"int", byte_at(s, p + 2) + 256 * byte_at(s, p + 3),
             byte_at(s, p) + 256 * byte_at(s, p + 1)>>

\* a value read by read_int as a length or a list index; a value of 2^20 or
\* more stands for 2^20, which is past the end of every block of the model
count_of(x) == IF x[2] >= 16 THEN 1048576 ELSE x[2] * 65536 + x[3]

count_at(s, p) == count_of(int_at(s, p))

\* the sum of k lengths stored from p on
RECURSIVE sum_counts(_, _, _)
sum_counts(s, p, k) ==
    IF k = 0 THEN 0 ELSE count_at(s, p) + sum_counts(s, p + 4, k - 1)

\* n values read with read_int from p on
read_ints(s, p, n) == [i \in 1..n |-> int_at(s, p + 4 * (i - 1))]

\* add_to_macro_data(macro, loop, release, data); loop and release are
\* stored positions, None is -1
add_to_macro_data(macro, loop, release, data) ==
    LET m1 == macro \o data
        m2 == IF loop # -1 THEN ListInsert(m1, loop, MacroItem_LOOP) ELSE m1
    IN  IF release # -1 THEN ListInsert(m2, release, MacroItem_RELEASE) ELSE m2

\* a stored loop or release point: 0xffffffff is "none"
point_of(x) == IF x = <<"int", 65535, 65535>> THEN -1 ELSE count_of(x)

point_at(s, p) == point_of(int_at(s, p))

\* data with k subtracted from each int
sub_ints(data, k) ==
    [i \in 1..Len(data) |->
        IF is_int(data[i]) THEN int_sub(data[i], k) ELSE data[i]]

\* data with bit 30 set in each int
or_bit30_ints(data) ==
    [i \in 1..Len(data) |->
        IF is_int(data[i]) THEN int_or_bit30(data[i]) ELSE data[i]]

\* data with bit 30 flipped in each int
xor_bit30_ints(data) ==
    [i \in 1..Len(data) |->
        IF is_int(data[i]) THEN int_xor_bit30(data[i]) ELSE data[i]]

\* the "fixed arp" conversion of versions below 112
old_fixed_arp(data, arp_mac_loop, arp_mac_len) ==
    LET d1 == or_bit30_ints(data)
    IN  IF Len(d1) > 0
        THEN IF arp_mac_loop # -1
             THEN IF arp_mac_loop = arp_mac_len + 1
                  THEN SubSeq(d1, 1, Len(d1) - 1) \o <<IntVal(0), MacroItem_LOOP>>
                  ELSE IF arp_mac_loop = arp_mac_len THEN Append(d1, IntVal(0))
                  ELSE d1
             ELSE d1
        ELSE Append(d1, IntVal(0))

\* the extended op macros of one operator (version >= 61): 8 lengths, 8 loops,
\* 8 release points, 8 open flags, then one byte per value
RECURSIVE skip_ext_ops(_, _, _)
skip_ext_ops(s, p, ops) ==
    IF ops = 0 THEN p
    ELSE skip_ext_ops(s, p + 104 + sum_counts(s, p, 8), ops - 1)

InstrumentType_STANDARD == 0
InstrumentType_SSG == 6
InstrumentType_PCE == 5
InstrumentType_FM_OPLL == 13
InstrumentTypes == 0..49
WaveFXs == (0..6) \cup (128..136)
GBHwCommands == 0..5
ESFilterModes == 0..3
GainModes == {0, 4, 5, 6, 7}

\* The sections of the legacy block after the name, in stream order, and the
\* version each one is read from:
\*    1 fm  2 gameboy  3 c64  4 amiga  5 standard macros  6 fm macros (29)
\*    7 fm op macros (29)  8 release points (44)  9 extended op macros (61)
\*   10 opl drums (63)  11 sample map (67)  12 n163 (73)  13 more macros (76)
\*   14 fds (76)  15 fms2/ams2 (77)  16 wave synth (79)  17 macro modes (84)
\*   18 c64 no_test (89)  19 multipcm (93)  20 sound unit (104)
\*   21 gb hw seq (105)  22 additional gb (106)  23 es5506 (107)  24 snes (109)
\*   25 macro speed and delay (111)
NumSections == 25

section_version(i) ==
    CASE i <= 5 -> 0 [] i \in {6, 7} -> 29 [] i = 8 -> 44 [] i = 9 -> 61
      [] i = 10 -> 63 [] i = 11 -> 67 [] i = 12 -> 73 [] i \in {13, 14} -> 76
      [] i = 15 -> 77 [] i = 16 -> 79 [] i = 17 -> 84 [] i = 18 -> 89
      [] i = 19 -> 93 [] i = 20 -> 104 [] i = 21 -> 105 [] i = 22 -> 106
      [] i = 23 -> 107 [] i = 24 -> 109 [] OTHER -> 111

\* the number of bytes section i takes when it starts at p
section_size(d, v, i, p) ==
    IF v < section_version(i) THEN 0
    ELSE CASE i = 1 -> 8 + 4 * 32
           [] i = 2 -> 4
           [] i = 3 -> 24
           [] i = 4 -> 16
           [] i = 5 -> IF v >= 17 THEN 68 + 4 * sum_counts(d, p, 8)
                       ELSE 36 + 4 * sum_counts(d, p, 4)
           [] i = 6 -> 44 + 4 * sum_counts(d, p, 4)
           [] i = 7 -> 432 + 4 * (sum_counts(d, p, 12) + sum_counts(d, p + 108, 12)
                                  + sum_counts(d, p + 216, 12)
                                  + sum_counts(d, p + 324, 12))
           [] i = 8 -> 4 * 12 + 4 * 48
           [] i = 9 -> skip_ext_ops(d, p, 4) - p
           [] i = 10 -> 8
           [] i = 11 -> 1 + (IF byte_at(d, p) # 0 THEN 120 * 4 + 120 * 2 ELSE 0)
           [] i = 12 -> 8
           [] i = 13 -> 104 + 4 * sum_counts(d, p, 8)
           [] i = 14 -> 44
           [] i = 15 -> 2
           [] i = 16 -> 17
           [] i = 17 -> 19
           [] i = 18 -> 1
           [] i = 19 -> 9 + 23
           [] i = 20 -> 2
           [] i = 21 -> 1 + 3 * byte_at(d, p)
           [] i = 22 -> 2
           [] i = 23 -> 13
           [] i = 24 -> 7
           [] OTHER -> 20 + 20 + 4 * 40

\* the cursor after section i, which starts at p
section_after(d, v, i, p) == p + section_size(d, v, i, p)

\* the cursor after sections 1..i, the first one starting at p0
RECURSIVE section_end(_, _, _, _)
section_end(d, v, p0, i) ==
    IF i = 0 THEN p0
    ELSE section_after(d, v, i, section_end(d, v, p0, i - 1))

\* The enum values the sections construct: WaveFX (wave synth at ws),
\* GBHwCommand (gb hw seq at hw), ESFilterMode (es5506 at es) and GainMode
\* (snes at sn) raise ValueError on a value that is no member.

\* the offset of the first byte that is no member of its enum, Len(d) when
\* there is none: the fields before it are read and stored, and the
\* constructor of the enum raises
bad_enum_at(d, v, ws, hw, es, sn) ==
    IF v >= 79 /\ byte_at(d, ws + 9) \notin WaveFXs THEN ws + 9
    ELSE IF v >= 105 /\ \E i \in 0..(byte_at(d, hw) - 1) :
                            byte_at(d, hw + 1 + 3 * i) \notin GBHwCommands
    THEN hw + 1 + 3 * (CHOOSE i \in 0..(byte_at(d, hw) - 1) :
                          /\ byte_at(d, hw + 1 + 3 * i) \notin GBHwCommands
                          /\ \A j \in 0..(i - 1) :
                                 byte_at(d, hw + 1 + 3 * j) \in GBHwCommands)
    ELSE IF v >= 107 /\ byte_at(d, es) \notin ESFilterModes THEN es
    ELSE IF v >= 118 /\ byte_at(d, sn + 1) \notin GainModes THEN sn + 1
    ELSE Len(d)

\* the offset up to which the fields of the block are read and stored: the
\* end of the block, or the first byte that is no member of its enum
read_limit(d, v, p0) ==
    Min(Len(d),
        bad_enum_at(d, v, section_end(d, v, p0, 15), section_end(d, v, p0, 20),
                    section_end(d, v, p0, 22), section_end(d, v, p0, 23)))

\* the number of standard macros whose lengths and loops are stored together
num_std(v) == IF v >= 17 THEN 8 ELSE 4

\* macro k (0 VOL, 1 ARP, 2 DUTY, 3 WAVE) of the standard section at qs: the
\* values, then the loop marker
std_raw(d, v, qs, k) ==
    add_to_macro_data(<<>>, point_at(d, qs + 4 * num_std(v) + 4 * k), -1,
        read_ints(d, qs + 8 * num_std(v) + 4 + 4 * sum_counts(d, qs, k),
                  count_at(d, qs + 4 * k)))

\* the "adjust values" part; the c64 section is at qc
std_adjust(d, v, qc, qs, k, raw) ==
    CASE k = 0 /\ v < 87 /\ byte_at(d, qc + 10) # 0 /\ byte_at(d, qc + 19) = 0
             -> sub_ints(raw, 18)
      [] k = 1 /\ v < 112 /\ byte_at(d, qs + 8 * num_std(v)) = 1
             -> old_fixed_arp(raw, point_at(d, qs + 4 * num_std(v) + 4),
                              count_at(d, qs + 4))
      [] k = 1 /\ v < 31 /\ byte_at(d, qs + 8 * num_std(v)) = 0
             -> sub_ints(raw, 12)
      [] k = 2 /\ v < 87 /\ byte_at(d, qc + 18) # 0 -> sub_ints(raw, 12)
      [] OTHER -> raw

std_at(d, v, qc, qs, k) == std_adjust(d, v, qc, qs, k, std_raw(d, v, qs, k))

\* release points (version >= 44), stored at qrel; the fields that end at
\* lim or before are read
with_release(d, v, k, data, qrel, lim) ==
    IF v >= 44 /\ qrel + 4 * k + 4 <= lim
    THEN add_to_macro_data(data, -1, point_at(d, qrel + 4 * k), <<>>)
    ELSE data

\* self.meta.type after the standard section at qs: below version 17 a
\* STANDARD instrument becomes PCE when old_vol_height is 31 and else SSG
\* when old_duty_height is 31
type_after_standard(d, v, type, qs) ==
    IF v >= 17 \/ type # InstrumentType_STANDARD THEN type
    ELSE IF byte_at(d, qs + 8 * num_std(v) + 1) = 31 THEN InstrumentType_PCE
    ELSE IF byte_at(d, qs + 8 * num_std(v) + 2) = 31 THEN InstrumentType_SSG
    ELSE type

\* clear macros
clear_macros(v, type, k, data) ==
    IF k = 2 /\ v < 63 /\ type = InstrumentType_PCE THEN <<>>
    ELSE IF k = 3 /\ v < 70 /\ type = InstrumentType_FM_OPLL THEN <<>>
    ELSE data

\* macro modes (version >= 84), stored at q: vol, duty, wave; none for arp
mode_at(d, v, k, q, lim) ==
    IF v >= 84 /\ k # 1 /\ q + (IF k = 0 THEN 0 ELSE k - 1) < lim
    THEN byte_at(d, q + (IF k = 0 THEN 0 ELSE k - 1)) ELSE 0

\* old arp macro format: arp_mac.mode is still the dataclass default here (the
\* byte read in the standard section is the local arp_mac_mode)
old_arp_format(v, k, mode, data) ==
    IF k = 1 /\ v < 112 /\ mode # 0 THEN xor_bit30_ints(data) ELSE data

\* the data of macro k when the fields up to lim are read: the release
\* point, and the "clear macros" step that follows the opl drums, which end
\* at qdr
data_at(d, v, type, k, qc, qs, qrel, qdr, lim) ==
    IF qdr > lim THEN with_release(d, v, k, std_at(d, v, qc, qs, k), qrel, lim)
    ELSE clear_macros(v, type_after_standard(d, v, type, qs), k,
                      with_release(d, v, k, std_at(d, v, qc, qs, k), qrel, lim))

\* macro k as the load leaves it when the fields up to lim are read (all of
\* them when the load returns); the fm macros are at qfm, the modes at
\* qmode, speed and delay at qsd
macro_at(d, v, k, qfm, qmode, qsd, lim, data) ==
    SingleMacro(k, mode_at(d, v, k, qmode, lim), MacroType_SEQUENCE,
                IF v >= 111 /\ qsd + 20 + k < lim THEN byte_at(d, qsd + 20 + k)
                ELSE 0,
                IF v >= 111 /\ qsd + k < lim THEN byte_at(d, qsd + k) ELSE 1,
                IF v >= 29 /\ qfm + 32 + k < lim THEN byte_at(d, qfm + 32 + k) # 0
                ELSE FALSE,
                old_arp_format(v, k, mode_at(d, v, k, qmode, lim), data))

format_0_macro(d, v, type, p0, k, lim) ==
    macro_at(d, v, k, section_end(d, v, p0, 5), section_end(d, v, p0, 16),
             section_end(d, v, p0, 24), lim,
             data_at(d, v, type, k, section_end(d, v, p0, 2),
                     section_end(d, v, p0, 4), section_end(d, v, p0, 7),
                     section_end(d, v, p0, 10), lim))

\* the outcome of the load after self.features.append(mac): the VOL, ARP,
\* DUTY and WAVE macros with what was stored in them when the load returned
\* or raised
format_0_result(d, v, type, p0, lim) ==
    [st |-> IF section_end(d, v, p0, NumSections) > Len(d) \/ lim < Len(d)
            THEN "error" ELSE "done",
     macros |-> [k \in 1..4 |-> format_0_macro(d, v, type, p0, k - 1, lim)]]

\* the sections after the name: an exception raised before the standard
\* section is read in full leaves no InsFeatureMacro in self.features
format_0_sections(d, v, type, name) ==
    IF name.hang THEN [st |-> "hang", macros |-> <<>>]
    ELSE IF name.bad THEN MacError
    ELSE IF section_end(d, v, name.pos, 5) > Len(d) THEN MacError
    ELSE format_0_result(d, v, type, name.pos, read_limit(d, v, name.pos))

\* the body of __load_format_0_embed on ins_data d: the VOL, ARP, DUTY and
\* WAVE macros of the InsFeatureMacro in self.features after the load (the
\* feature also holds the macros that follow them in mac_list), none when
\* the load raises before the feature is appended
format_0_macros(d) ==
    IF Len(d) < 4 \/ byte_at(d, 2) \notin InstrumentTypes THEN MacError
    ELSE format_0_sections(d, byte_at(d, 0) + 256 * byte_at(d, 1),
                           byte_at(d, 2), read_str(d, 4))

EMBED_MAGIC_STR == <<73, 78, 83, 84>>

\* ins_data: the block's bytes (blk_size > 0) or the stream itself
ins_data_of(s, blk_size) ==
    IF blk_size > 0 THEN stream_read(s, 8, blk_size).bytes
    ELSE SubSeq(s, 9, Len(s))

\* __load_format_0_embed(stream): the magic, the block size, and the body
load_format_0_embed(s) ==
    IF stream_read(s, 0, 4).bytes # EMBED_MAGIC_STR \/ Len(s) < 8 THEN MacError
    ELSE format_0_macros(ins_data_of(s, count_at(s, 4)))

\* ------------------------------------------------------------------------
\* MacroSpec: one authored macro in the legacy and in the featural layout
\* ------------------------------------------------------------------------

\* The writers of the two layouts are not part of the decoder; they follow
\* the field order that the readers above consume.  Everything that is not
\* the authored macro is zero, "none" (0xffffffff) or the default.

Zeros(n) == [i \in 1..n |-> 0]

\* n as a little-endian 32-bit two's complement value, for -65536 <= n < 2^31
S32(n) ==
    <<(n % 65536) % 256, (n % 65536) \div 256,
      ((n \div 65536) % 65536) % 256, ((n \div 65536) % 65536) \div 256>>

\* a value <<"int", hi, lo>> as the four bytes that read_int reads
U32(x) == <<x[3] % 256, x[3] \div 256, x[2] % 256, x[2] \div 256>>

NONE32 == <<255, 255, 255, 255>>

Rep(b, n) == Concat([i \in 1..n |-> b])

\* the field f of the macro of kind k: the authored one, or the default d
Field(a, k, f, d) == IF a.kind = k THEN a[f] ELSE d

\* the values of the macro of kind k
encode_vals(a, k) ==
    Concat([i \in 1..Len(Field(a, k, "vals", <<>>)) |->
               S32(Field(a, k, "vals", <<>>)[i])])

\* the arpeggio mode byte of the standard section: 0 unless the authored
\* macro names one
arp_mode_of(a) == IF "arp_mode" \in DOMAIN a THEN a.arp_mode ELSE 0

encode_format_0_body(a) ==
    LET v == a.version
        len(k) == S32(Len(Field(a, k, "vals", <<>>)))
        loop(k) == S32(Field(a, k, "loop", -1))
        vals(k) == encode_vals(a, k)
        open(k) == <<IF Field(a, k, "open", FALSE) THEN 1 ELSE 0>>
        rel(k) == S32(Field(a, k, "rel", -1))
        speed(k) == <<Field(a, k, "speed", 1)>>
        delay(k) == <<Field(a, k, "delay", 0)>>
        when(c, b) == IF c THEN b ELSE <<>>
    IN  <<v % 256, v \div 256, 0, 0>> \o a.name \o <<0>>
        \o Zeros(136) \o Zeros(4) \o Zeros(24) \o Zeros(16)
        \o len(0) \o len(1) \o len(2) \o len(3) \o Rep(S32(0), 4)
        \o loop(0) \o loop(1) \o loop(2) \o loop(3) \o Rep(NONE32, 4)
        \o <<arp_mode_of(a), 0, 0, 0>>
        \o vals(0) \o vals(1) \o vals(2) \o vals(3)
        \o Rep(S32(0), 4) \o Rep(NONE32, 4)
        \o open(0) \o open(1) \o open(2) \o open(3) \o Zeros(8)
        \o Rep(Rep(S32(0), 12) \o Rep(NONE32, 12) \o Zeros(12), 4)
        \o rel(0) \o rel(1) \o rel(2) \o rel(3) \o Rep(NONE32, 8)
        \o Rep(NONE32, 48)
        \o when(v >= 61, Rep(Rep(S32(0), 8) \o Rep(NONE32, 16) \o Zeros(8), 4))
        \o when(v >= 63, Zeros(8))
        \o when(v >= 67, Zeros(1))
        \o when(v >= 73, Zeros(8))
        \o when(v >= 76, Rep(S32(0), 8) \o Rep(NONE32, 16) \o Zeros(8) \o Zeros(44))
        \o when(v >= 77, Zeros(2))
        \o when(v >= 79, Zeros(17))
        \o when(v >= 84, <<Field(a, 0, "mode", 0), Field(a, 2, "mode", 0),
                           Field(a, 3, "mode", 0)>> \o Zeros(16))
        \o when(v >= 89, Zeros(1))
        \o when(v >= 93, Zeros(32))
        \o when(v >= 104, Zeros(2))
        \o when(v >= 105, Zeros(1))
        \o when(v >= 106, Zeros(2))
        \o when(v >= 107, Zeros(13))
        \o when(v >= 109, Zeros(7))
        \o when(v >= 111, speed(0) \o speed(1) \o speed(2) \o speed(3)
                          \o Rep(<<1>>, 16)
                          \o delay(0) \o delay(1) \o delay(2) \o delay(3)
                          \o Zeros(16) \o Zeros(160))

\* the "INST" block around a body, with its size or with size 0 (the body is
\* then the rest of the stream)
inst_block(sized, body) ==
    EMBED_MAGIC_STR \o (IF sized THEN S32(Len(body)) ELSE S32(0)) \o body

encode_format_0(a) == inst_block(a.sized, encode_format_0_body(a))

\* the smallest word size that holds every value
word_size_for(vals) ==
    IF \A i \in 1..Len(vals) : 0 <= vals[i] /\ vals[i] <= 255 THEN 0
    ELSE IF \A i \in 1..Len(vals) : -128 <= vals[i] /\ vals[i] <= 127 THEN 1
    ELSE IF \A i \in 1..Len(vals) : -32768 <= vals[i] /\ vals[i] <= 32767 THEN 2
    ELSE 3

\* a loop or release point as the byte of the featural layout
point_byte(x) == IF x = -1 THEN 255 ELSE x

\* the "MA" feature body with word size ws: header size, the authored macro,
\* the stop code
ma_block_with(a, ws) ==
    <<8, 0>>
    \o <<a.kind, Len(a.vals), point_byte(a.loop), point_byte(a.rel), a.mode,
         ws * 64 + (IF a.open THEN 1 ELSE 0), a.delay, a.speed>>
    \o Concat([i \in 1..Len(a.vals) |->
                  SubSeq(S32(a.vals[i]), 1, MacroSize_num_bytes(ws))])
    \o <<MacroCode_STOP>>

encode_ma_block(a) == ma_block_with(a, word_size_for(a.vals))

MaxMacroLen == 2
MacroValues == {-1, 5, 70000}
MacVersions == {44, 84, 111}

\* loop point, release point, open flag, and whether the block has its size
MacShapes ==
    { <<-1, -1, FALSE, TRUE>>, <<1, -1, TRUE, TRUE>>, <<-1, 0, FALSE, FALSE>>,
      <<1, 0, TRUE, FALSE>>, <<0, 2, FALSE, TRUE>> }

\* the authored macros a format version can hold: a mode from version 84 on
\* (never for the arpeggio), speed and delay from version 111 on
AuthoredMacros ==
    UNION { { [version |-> v, kind |-> k, name |-> <<73>>, sized |-> sh[4],
               vals |-> x, loop |-> sh[1], rel |-> sh[2], open |-> sh[3],
               mode |-> m, speed |-> sd[1], delay |-> sd[2]] :
                x \in SeqsUpTo(MacroValues, MaxMacroLen),
                sh \in MacShapes,
                m \in IF v >= 84 /\ k # MacroCode_ARP THEN {0, 1} ELSE {0},
                sd \in IF v >= 111 THEN {<<1, 0>>, <<2, 3>>} ELSE {<<1, 0>>} } :
            v \in MacVersions, k \in 0..3 }

MacInit ==
    /\ OthersIdle("mac")
    /\ mac_authored \in AuthoredMacros
    /\ ins_stream = encode_format_0(mac_authored)
    /\ ma_stream = encode_ma_block(mac_authored)
    /\ mac_old = [st |-> "idle"] /\ mac_new = [st |-> "idle"]
    /\ mpc = "start"

\* FurnaceInstrument.__load_format_0_embed(ins_stream)
MacLoadLegacy ==
    /\ mpc = "start"
    /\ mac_old' = load_format_0_embed(ins_stream)
    /\ mpc' = "legacy"
    /\ UNCHANGED <<mac_authored, ins_stream, ma_stream, mac_new>>
    /\ UNCHANGED nonMacVars

\* FurnaceInstrument.__common_ma_block(ma_stream, InsFeatureMacro)
MacLoadFeatural ==
    /\ mpc = "legacy"
    /\ mac_new' = common_ma_block(ma_stream)
    /\ mpc' = "done"
    /\ UNCHANGED <<mac_authored, ins_stream, ma_stream, mac_old>>
    /\ UNCHANGED nonMacVars

MacNext == MacLoadLegacy \/ MacLoadFeatural

MacroSpec == MacInit /\ [][MacNext]_vars

\* the authored macro as a SingleMacro
authored_macro(a) ==
    SingleMacro(a.kind, a.mode, MacroType_SEQUENCE, a.delay, a.speed, a.open,
                add_to_macro_data(<<>>, a.loop, a.rel,
                                  [i \in 1..Len(a.vals) |-> IntVal(a.vals[i])]))

\* C5: the same authored macro decoded from the legacy layout and from the
\* featural layout gives equal SingleMacro objects, for VOL, ARP, DUTY and
\* WAVE.
C5_LegacyAndFeaturalMacrosEqual ==
    mpc = "done" =>
        /\ mac_old.st = "done" /\ mac_new.st = "done"
        /\ mac_old.macros[mac_authored.kind + 1] = mac_new.macros[1]

\* the featural decode gives back the authored macro
FeaturalDecodesAuthored ==
    mpc = "done" =>
        mac_new = [st |-> "done", macros |-> <<authored_macro(mac_authored)>>]

\* without negative values the two decodes agree
LegacyAndFeaturalAgreeFromZero ==
    (mpc = "done" /\ \A i \in 1..Len(mac_authored.vals) : mac_authored.vals[i] >= 0)
        => /\ mac_old.st = "done"
           /\ mac_old.macros[mac_authored.kind + 1] = mac_new.macros[1]

\* ------------------------------------------------------------------------
\* CompatSpec: __init_compat_flags and __read_compat_flags
\* ------------------------------------------------------------------------

LinearPitch_ONLY_PITCH_CHANGE == 1
LinearPitch_FULL_LINEAR == 2
LoopModality_HARD_RESET_CHANNELS == 0
LoopModality_DO_NOTHING == 2
DelayBehavior_BROKEN == 1
DelayBehavior_LAX == 2
JumpTreatment_ALL_JUMPS == 0
JumpTreatment_FIRST_JUMP_ONLY == 1

\* LinearPitch, LoopModality, DelayBehavior and JumpTreatment each have the
\* members 0, 1 and 2; constructing one from another value raises ValueError
CompatEnumValues == 0..2

CompatEnumFlags ==
    {"linear_pitch", "loop_modality", "cut_delay_effect_policy", "jump_treatment"}

\* ModuleCompatFlags(): the dataclass defaults
ModuleCompatFlags ==
    [limit_slides |-> FALSE,
     linear_pitch |-> LinearPitch_FULL_LINEAR,
     loop_modality |-> LoopModality_DO_NOTHING,
     proper_noise_layout |-> TRUE,
     wave_duty_is_volume |-> FALSE,
     reset_macro_on_porta |-> FALSE,
     legacy_volume_slides |-> FALSE,
     compatible_arpeggio |-> FALSE,
     note_off_resets_slides |-> TRUE,
     target_resets_slides |-> TRUE,
     arpeggio_inhibits_portamento |-> FALSE,
     wack_algorithm_macro |-> FALSE,
     broken_shortcut_slides |-> FALSE,
     ignore_duplicates_slides |-> FALSE,
     stop_portamento_on_note_off |-> FALSE,
     continuous_vibrato |-> FALSE,
     broken_dac_mode |-> FALSE,
     one_tick_cut |-> FALSE,
     instrument_change_allowed_in_porta |-> TRUE,
     reset_note_base_on_arpeggio_stop |-> TRUE,
     broken_speed_selection |-> FALSE,
     no_slides_on_first_tick |-> FALSE,
     next_row_reset_arp_pos |-> FALSE,
     ignore_jump_at_end |-> FALSE,
     buggy_portamento_after_slide |-> FALSE,
     gb_ins_affects_env |-> TRUE,
     shared_extch_state |-> TRUE,
     ignore_outside_dac_mode_change |-> FALSE,
     e1e2_takes_priority |-> FALSE,
     new_sega_pcm |-> TRUE,
     weird_fnum_pitch_slides |-> FALSE,
     sn_duty_resets_phase |-> FALSE,
     linear_pitch_macro |-> TRUE,
     pitch_slide_speed_in_linear |-> 4,
     old_octave_boundary |-> FALSE,
     disable_opn2_dac_volume_control |-> FALSE,
     new_volume_scaling |-> TRUE,
     volume_macro_lingers |-> TRUE,
     broken_out_vol |-> FALSE,
     e1e2_stop_on_same_note |-> FALSE,
     broken_porta_after_arp |-> FALSE,
     sn_no_low_periods |-> FALSE,
     cut_delay_effect_policy |-> DelayBehavior_LAX,
     jump_treatment |-> JumpTreatment_ALL_JUMPS,
     auto_sys_name |-> TRUE,
     disable_sample_macro |-> FALSE,
     broken_out_vol_2 |-> FALSE,
     old_arp_strategy |-> FALSE,
     auto_patchbay |-> TRUE,
     broken_porta_during_legato |-> FALSE,
     broken_fm_off |-> FALSE,
     pre_note_no_effect |-> FALSE,
     old_dpcm |-> FALSE,
     reset_arp_phase_on_new_note |-> FALSE,
     ceil_volume_scaling |-> FALSE,
     old_always_set_volume |-> FALSE,
     old_sample_offset |-> FALSE]

\* one assignment of __init_compat_flags: flag = val if version < below
Legacy(below, flag, val) == [below |-> below, flag |-> flag, val |-> val]

\* the assignments of __init_compat_flags, in source order
init_compat_table ==
    << Legacy(37, "limit_slides", TRUE),
       Legacy(37, "linear_pitch", LinearPitch_ONLY_PITCH_CHANGE),
       Legacy(37, "loop_modality", LoopModality_HARD_RESET_CHANNELS),
       Legacy(43, "proper_noise_layout", FALSE),
       Legacy(43, "wave_duty_is_volume", FALSE),
       Legacy(45, "reset_macro_on_porta", TRUE),
       Legacy(45, "legacy_volume_slides", TRUE),
       Legacy(45, "compatible_arpeggio", TRUE),
       Legacy(45, "note_off_resets_slides", TRUE),
       Legacy(45, "target_resets_slides", TRUE),
       Legacy(46, "arpeggio_inhibits_portamento", TRUE),
       Legacy(46, "wack_algorithm_macro", TRUE),
       Legacy(49, "broken_shortcut_slides", TRUE),
       Legacy(50, "ignore_duplicates_slides", FALSE),
       Legacy(62, "stop_portamento_on_note_off", TRUE),
       Legacy(64, "broken_dac_mode", FALSE),
       Legacy(65, "one_tick_cut", FALSE),
       Legacy(66, "instrument_change_allowed_in_porta", FALSE),
       Legacy(69, "reset_note_base_on_arpeggio_stop", FALSE),
       Legacy(71, "no_slides_on_first_tick", FALSE),
       Legacy(71, "next_row_reset_arp_pos", FALSE),
       Legacy(71, "ignore_jump_at_end", TRUE),
       Legacy(72, "buggy_portamento_after_slide", TRUE),
       Legacy(72, "gb_ins_affects_env", FALSE),
       Legacy(78, "shared_extch_state", FALSE),
       Legacy(83, "ignore_outside_dac_mode_change", TRUE),
       Legacy(83, "e1e2_takes_priority", FALSE),
       Legacy(84, "new_sega_pcm", FALSE),
       Legacy(85, "weird_fnum_pitch_slides", TRUE),
       Legacy(86, "sn_duty_resets_phase", TRUE),
       Legacy(90, "linear_pitch_macro", FALSE),
       Legacy(97, "old_octave_boundary", TRUE),
       Legacy(97, "disable_opn2_dac_volume_control", TRUE),
       Legacy(99, "new_volume_scaling", FALSE),
       Legacy(99, "volume_macro_lingers", FALSE),
       Legacy(99, "broken_out_vol", TRUE),
       Legacy(100, "e1e2_stop_on_same_note", FALSE),
       Legacy(101, "broken_porta_after_arp", TRUE),
       Legacy(108, "sn_no_low_periods", TRUE),
       Legacy(110, "cut_delay_effect_policy", DelayBehavior_BROKEN),
       Legacy(113, "jump_treatment", JumpTreatment_FIRST_JUMP_ONLY),
       Legacy(115, "auto_sys_name", TRUE),
       Legacy(117, "disable_sample_macro", TRUE),
       Legacy(121, "broken_out_vol_2", FALSE),
       Legacy(130, "old_arp_strategy", TRUE),
       Legacy(138, "broken_porta_during_legato", TRUE),
       Legacy(155, "broken_fm_off", TRUE),
       Legacy(168, "pre_note_no_effect", TRUE),
       Legacy(183, "old_dpcm", TRUE),
       Legacy(184, "reset_arp_phase_on_new_note", FALSE),
       Legacy(188, "ceil_volume_scaling", FALSE),
       Legacy(191, "old_always_set_volume", TRUE),
       Legacy(200, "old_sample_offset", TRUE) >>

\* the assignment of table t that version v makes to flag f: its index in t,
\* or 0 if there is none (no flag is assigned twice)
legacy_index(v, t, f) ==
    IF \A i \in 1..Len(t) : ~(t[i].flag = f /\ v < t[i].below) THEN 0
    ELSE CHOOSE i \in 1..Len(t) : t[i].flag = f /\ v < t[i].below

\* flags after the assignments of table t for version v
assign_legacy(flags, v, t) ==
    [f \in DOMAIN flags |->
        IF legacy_index(v, t, f) = 0 THEN flags[f]
        ELSE t[legacy_index(v, t, f)].val]

\* __init_compat_flags on the flags of a new module
init_compat_flags(v) == assign_legacy(ModuleCompatFlags, v, init_compat_table)

\* one "if version >= from" of __read_compat_flags: the flags it reads, one
\* byte each, and what it takes from compat_flags_to_skip
Stored(from, flags, dec) == [from |-> from, flags |-> flags, dec |-> dec]

\* phase 1; everything is inside the else branch of "version < 37"
compat_1_table ==
    << Stored(37, <<"limit_slides", "linear_pitch", "loop_modality">>, 3),
       Stored(43, <<"proper_noise_layout", "wave_duty_is_volume">>, 2),
       Stored(45, <<"reset_macro_on_porta", "legacy_volume_slides",
                    "compatible_arpeggio", "note_off_resets_slides",
                    "target_resets_slides">>, 5),
       Stored(47, <<"arpeggio_inhibits_portamento", "wack_algorithm_macro">>, 2),
       Stored(49, <<"broken_shortcut_slides">>, 1),
       Stored(50, <<"ignore_duplicates_slides">>, 1),
       Stored(62, <<"stop_portamento_on_note_off", "continuous_vibrato">>, 2),
       Stored(64, <<"broken_dac_mode">>, 1),
       Stored(65, <<"one_tick_cut">>, 1),
       Stored(66, <<"instrument_change_allowed_in_porta">>, 1),
       Stored(69, <<"reset_note_base_on_arpeggio_stop">>, 1) >>

\* phase 2; everything is inside "version >= 70"
compat_2_table ==
    << Stored(70, <<"broken_speed_selection">>, 1),
       Stored(71, <<"no_slides_on_first_tick", "next_row_reset_arp_pos",
                    "ignore_jump_at_end">>, 3),
       Stored(72, <<"buggy_portamento_after_slide", "gb_ins_affects_env">>, 2),
       Stored(78, <<"shared_extch_state">>, 1),
       Stored(83, <<"ignore_outside_dac_mode_change", "e1e2_takes_priority">>, 2),
       Stored(84, <<"new_sega_pcm">>, 1),
       Stored(85, <<"weird_fnum_pitch_slides">>, 1),
       Stored(86, <<"sn_duty_resets_phase">>, 1),
       Stored(90, <<"linear_pitch_macro">>, 1),
       Stored(94, <<"pitch_slide_speed_in_linear">>, 1),
       Stored(97, <<"old_octave_boundary">>, 1),
       Stored(98, <<"disable_opn2_dac_volume_control">>, 1),
       Stored(99, <<"new_volume_scaling", "volume_macro_lingers",
                    "broken_out_vol">>, 3),
       Stored(100, <<"e1e2_stop_on_same_note">>, 1),
       Stored(101, <<"broken_porta_after_arp">>, 1),
       Stored(108, <<"sn_no_low_periods">>, 1),
       Stored(110, <<"cut_delay_effect_policy">>, 1),
       Stored(113, <<"jump_treatment">>, 1),
       Stored(115, <<"auto_sys_name">>, 1),
       Stored(117, <<"disable_sample_macro">>, 1),
       Stored(121, <<"broken_out_vol_2">>, 1),
       Stored(130, <<"old_arp_strategy">>, 1) >>

\* phase 3
compat_3_table ==
    << Stored(138, <<"broken_porta_during_legato">>, 1),
       Stored(155, <<"broken_fm_off">>, 1),
       Stored(168, <<"pre_note_no_effect">>, 1),
       Stored(183, <<"old_dpcm">>, 1),
       Stored(184, <<"reset_arp_phase_on_new_note">>, 1),
       Stored(188, <<"ceil_volume_scaling">>, 1),
       Stored(191, <<"old_always_set_volume">>, 1) >>

compat_table(phase) ==
    CASE phase = 1 -> compat_1_table
      [] phase = 2 -> compat_2_table
      [] OTHER -> compat_3_table

\* the version below which a phase reads no flag at all
compat_gate(phase) ==
    CASE phase = 1 -> 37
      [] phase = 2 -> 70
      [] OTHER -> 0

\* compat_flags_to_skip at the start of a phase
compat_flags_to_skip(phase) ==
    CASE phase = 1 -> 20
      [] phase = 2 -> 28
      [] OTHER -> 8

\* the value a flag takes from its byte: bool(b), the enum member b, or b
\* itself for pitch_slide_speed_in_linear
flag_value(f, b) ==
    IF f \in CompatEnumFlags \/ f = "pitch_slide_speed_in_linear" THEN b
    ELSE b # 0

\* the flags a version reads from table t, in stream order
stored_flags(v, t) ==
    Concat([i \in 1..Len(t) |-> IF v >= t[i].from THEN t[i].flags ELSE <<>>])

\* what the first i groups of t take from compat_flags_to_skip
RECURSIVE stored_taken(_, _, _)
stored_taken(v, t, i) ==
    IF i = 0 THEN 0
    ELSE stored_taken(v, t, i - 1) + (IF v >= t[i].from THEN t[i].dec ELSE 0)

\* read j of the flags fs, from cursor p, raises: read_byte at the end of the
\* stream, an enum on a byte that is no member
read_raises(s, p, fs, j) ==
    \/ p + j - 1 >= Len(s)
    \/ fs[j] \in CompatEnumFlags /\ s[p + j] \notin CompatEnumValues

\* the first read that raises, or 0
first_raise(s, p, fs) ==
    IF \A j \in 1..Len(fs) : ~read_raises(s, p, fs, j) THEN 0
    ELSE CHOOSE j \in 1..Len(fs) :
             /\ read_raises(s, p, fs, j)
             /\ \A k \in 1..(j - 1) : ~read_raises(s, p, fs, k)

\* the state of a call: cursor, flags, log of reads, compat_flags_to_skip and
\* whether a read has raised
CallState(p, flags, log, skip, err) ==
    [pos |-> p, flags |-> flags, log |-> log, skip |-> skip, err |-> err]

\* flags after the first n reads of fs from cursor p
flags_read(s, p, fs, n, flags) ==
    [f \in DOMAIN flags |->
        IF \E j \in 1..n : fs[j] = f
        THEN flag_value(f, s[p + (CHOOSE j \in 1..n : fs[j] = f)])
        ELSE flags[f]]

\* log after the first n reads of fs from cursor p
log_read(p, fs, n, log) == log \o [j \in 1..n |-> [flag |-> fs[j], at |-> p + j - 1]]

\* the reads of fs from cursor p, of which read bad raises (0: none does); an
\* enum that raises has consumed its byte
reads_until(s, p, fs, bad, flags, log, skip) ==
    IF bad = 0
    THEN CallState(p + Len(fs), flags_read(s, p, fs, Len(fs), flags),
                   log_read(p, fs, Len(fs), log), skip, FALSE)
    ELSE CallState(IF p + bad - 1 >= Len(s) THEN p + bad - 1 ELSE p + bad,
                   flags_read(s, p, fs, bad - 1, flags),
                   log_read(p, fs, bad - 1, log), skip, TRUE)

\* the groups of table t that version v reads
read_groups(s, v, t, p, flags, log, skip) ==
    reads_until(s, p, stored_flags(v, t), first_raise(s, p, stored_flags(v, t)),
                flags, log, skip - stored_taken(v, t, Len(t)))

\* the "version < 37" branch of phase 1
compat_1_legacy(flags) ==
    [f \in DOMAIN flags |->
        CASE f = "limit_slides" -> TRUE
          [] f = "linear_pitch" -> LinearPitch_ONLY_PITCH_CHANGE
          [] f = "loop_modality" -> LoopModality_HARD_RESET_CHANNELS
          [] OTHER -> flags[f]]

\* the flag reads of a phase, from cursor p
read_phase_flags(s, v, phase, p, flags, log) ==
    IF phase = 1 /\ v < 37
    THEN CallState(p, compat_1_legacy(flags), log, compat_flags_to_skip(1), FALSE)
    ELSE IF v < compat_gate(phase)
    THEN CallState(p, flags, log, compat_flags_to_skip(phase), FALSE)
    ELSE read_groups(s, v, compat_table(phase), p, flags, log,
                     compat_flags_to_skip(phase))

\* stream.read(n): to the end of the stream if n is negative or too large
skip_reserved(s, p, n) == IF n < 0 THEN Len(s) ELSE Min(p + n, Len(s))

\* __read_compat_flags(stream, phase): the call state after the flag reads,
\* and the cursor after stream.read(compat_flags_to_skip)
call_end(s, c) == IF c.err THEN c.pos ELSE skip_reserved(s, c.pos, c.skip)

MaxVersion == 201

\* the stream lengths: all three regions (20 + 28 + 8 bytes), and streams that
\* end inside the third and inside the first region
CompatLens == {12, 50, 56}

\* byte i of a stream is (a + i * b) % m, for <<a, b, m>> in
CompatBytes ==
    { <<0, 0, 1>>, <<1, 0, 3>>, <<2, 0, 3>>, <<0, 1, 3>>, <<0, 1, 2>>,
      <<3, 0, 4>>, <<7, 5, 256>> }

compat_stream(n, g) == <<>> \o [i \in 1..n |-> (g[1] + i * g[2]) % g[3]]

\* the byte stored for auto_patchbay
PatchbayBytes == {<<>>, <<0>>, <<1>>}

NoCall == [phase |-> 0, before |-> 0, flags_end |-> 0, skip |-> 0]

CompatInit ==
    /\ OthersIdle("compat")
    /\ cf_version \in 0..MaxVersion
    /\ \E n \in CompatLens, g \in CompatBytes : cf_stream = compat_stream(n, g)
    /\ cf_pos = 0
    /\ compat_flags = ModuleCompatFlags
    /\ cf_log = <<>>
    /\ cf_call = NoCall
    /\ cf_patchbay \in PatchbayBytes
    /\ cpc = "start"

\* FurnaceModule.__init_compat_flags()
InitCompatFlags ==
    /\ cpc = "start"
    /\ compat_flags' = init_compat_flags(cf_version)
    /\ cpc' = "init"
    /\ UNCHANGED <<cf_version, cf_stream, cf_pos, cf_log, cf_call, cf_patchbay>>
    /\ UNCHANGED nonCompatVars

\* the end of a call of __read_compat_flags whose flag reads gave c
CompatReturn(phase, c) ==
    /\ cf_pos' = call_end(cf_stream, c)
    /\ compat_flags' = c.flags
    /\ cf_log' = c.log
    /\ cf_call' = [phase |-> phase, before |-> cf_pos, flags_end |-> c.pos,
                   skip |-> c.skip]
    /\ cpc' = IF c.err THEN "error" ELSE <<"p1", "p2", "p3">>[phase]
    /\ UNCHANGED <<cf_version, cf_stream, cf_patchbay>>
    /\ UNCHANGED nonCompatVars

\* self.__read_compat_flags(info_blk, 1)
ReadCompat1 ==
    /\ cpc = "init"
    /\ CompatReturn(1, read_phase_flags(cf_stream, cf_version, 1, cf_pos,
                                        compat_flags, cf_log))

\* if version >= 70: self.__read_compat_flags(info_blk, 2)
ReadCompat2 ==
    /\ cpc = "p1" /\ cf_version >= 70
    /\ CompatReturn(2, read_phase_flags(cf_stream, cf_version, 2, cf_pos,
                                        compat_flags, cf_log))

\* if version >= 136: self.compat_flags.auto_patchbay = bool(read_byte(info_blk))
ReadAutoPatchbay ==
    /\ cpc = "p2" /\ cf_version >= 136
    /\ compat_flags' = IF read_byte(cf_patchbay, 0).ok
                       THEN [compat_flags EXCEPT
                                !.auto_patchbay = read_byte(cf_patchbay, 0).val # 0]
                       ELSE compat_flags
    /\ cpc' = IF read_byte(cf_patchbay, 0).ok THEN "patchbay" ELSE "error"
    /\ UNCHANGED <<cf_version, cf_stream, cf_pos, cf_log, cf_call, cf_patchbay>>
    /\ UNCHANGED nonCompatVars

\* if version >= 138: self.__read_compat_flags(info_blk, 3)
ReadCompat3 ==
    /\ cpc = "patchbay" /\ cf_version >= 138
    /\ CompatReturn(3, read_phase_flags(cf_stream, cf_version, 3, cf_pos,
                                        compat_flags, cf_log))

CompatNext ==
    \/ InitCompatFlags
    \/ ReadCompat1
    \/ ReadCompat2
    \/ ReadAutoPatchbay
    \/ ReadCompat3

CompatSpec == CompatInit /\ [][CompatNext]_vars

\* a call of __read_compat_flags has returned
CompatReturned == cpc \in {"p1", "p2", "p3"}

\* every call the version asks for has returned
CompatDecoded ==
    \/ cpc = "p1" /\ cf_version < 70
    \/ cpc = "p2" /\ cf_version < 136
    \/ cpc = "patchbay" /\ cf_version < 138
    \/ cpc = "p3"

\* the stored byte 0 gives auto_patchbay = False
AutoPatchbayCleared ==
    /\ cpc = "patchbay" /\ cf_patchbay = <<0>> /\ ~compat_flags.auto_patchbay

\* an INFO block that ends before the auto_patchbay byte raises, and the flag
\* keeps its value
AutoPatchbayByteMissing ==
    /\ cpc = "error" /\ cf_patchbay = <<>> /\ cf_call.phase = 2
    /\ cf_pos = 48 /\ compat_flags.auto_patchbay

\* the byte budget of the phase of the last call
phase_budget == <<20, 28, 8>>[cf_call.phase]

\* C6: every call of __read_compat_flags that returns has advanced the
\* stream by exactly the budget of its phase (20, 28, 8): the flag bytes
\* read and the reserved bytes to skip add up to the budget, and the count
\* of reserved bytes is never negative.
C6_PhaseBudget ==
    CompatReturned =>
        /\ (cf_call.flags_end - cf_call.before) + cf_call.skip = phase_budget
        /\ cf_call.skip >= 0
        /\ cf_pos = cf_call.before + phase_budget

\* what the code does: the counts add up to the budget at every version,
\* and the cursor advances by the budget when the stream holds that many
\* bytes; stream.read(compat_flags_to_skip) stops at the end of a stream
\* that ends inside the reserved bytes, and the call returns
PhaseBudgetOrEndOfStream ==
    CompatReturned =>
        /\ (cf_call.flags_end - cf_call.before) + cf_call.skip = phase_budget
        /\ cf_call.skip >= 0
        /\ cf_pos = Min(cf_call.before + phase_budget, Len(cf_stream))

\* a phase 2 call that read 23 flag bytes and skipped 5 reserved ones
Phase2ReadAndSkipped ==
    /\ cpc = "p2" /\ cf_version = 110
    /\ cf_call.flags_end - cf_call.before = 23 /\ cf_call.skip = 5
    /\ cf_pos = 48

\* a stream of 12 bytes at version 12: phase 1 reads no flag and is to skip
\* 20 reserved bytes; the call returns with the cursor at 12
ReservedBytesCutShort ==
    /\ cpc = "p1" /\ cf_version = 12 /\ Len(cf_stream) = 12
    /\ cf_call.before = 0 /\ cf_call.flags_end = 0 /\ cf_call.skip = 20
    /\ cf_pos = 12

\* the flag of assignment e of __init_compat_flags holds its legacy default
\* and was not read (version below the threshold), or was read and holds the
\* value of its byte (version at or above the threshold)
defaulted_or_read(e) ==
    IF cf_version < e.below
    THEN /\ \A k \in 1..Len(cf_log) : cf_log[k].flag # e.flag
         /\ compat_flags[e.flag] = e.val
    ELSE \E k \in 1..Len(cf_log) :
             /\ cf_log[k].flag = e.flag
             /\ compat_flags[e.flag]
                    = flag_value(e.flag, cf_stream[cf_log[k].at + 1])

\* C7: after the decode, every flag that __init_compat_flags gives a legacy
\* default below a threshold T holds that default and was not read if the
\* version is below T, and was read from the stream and holds the stored
\* value if the version is T or above.
C7_DefaultedOrRead ==
    CompatDecoded =>
        \A i \in 1..Len(init_compat_table) :
            defaulted_or_read(init_compat_table[i])

\* the flags whose first stored version is not their default threshold
GapFlags ==
    {"arpeggio_inhibits_portamento", "wack_algorithm_macro",
     "disable_opn2_dac_volume_control", "old_sample_offset"}

\* every other flag is defaulted or read
OtherFlagsDefaultedOrRead ==
    CompatDecoded =>
        \A i \in 1..Len(init_compat_table) :
            init_compat_table[i].flag \notin GapFlags
                => defaulted_or_read(init_compat_table[i])

\* the flags of GapFlags keep the dataclass default at the versions between
\* the default threshold and the first stored version
GapKeepsDataclassDefault ==
    CompatDecoded =>
        /\ cf_version = 46 =>
               /\ compat_flags.arpeggio_inhibits_portamento = FALSE
               /\ compat_flags.wack_algorithm_macro = FALSE
        /\ cf_version = 97 => compat_flags.disable_opn2_dac_volume_control = FALSE
        /\ cf_version >= 200 => compat_flags.old_sample_offset = FALSE

\* ------------------------------------------------------------------------
\* ChipSpec: __convert_old_chip_flags and __read_dev119_chip_flags
\* ------------------------------------------------------------------------

\* enums.ChipType, by member name
ChipTypes ==
    { "YMU759", "GENESIS", "SMS", "GB", "PCE", "NES", "C64_8580",
      "SEGA_ARCADE", "NEO_GEO_CD", "GENESIS_EX", "SMS_JP", "NES_VRC7",
      "C64_6581", "NEO_GEO_CD_EX", "AY38910", "AMIGA", "YM2151", "YM2612",
      "TIA", "VIC20", "PET", "SNES", "VRC6", "OPLL", "FDS", "MMC5",
      "N163", "OPN", "PC98", "OPL", "OPL2", "OPL3", "MULTIPCM",
      "PC_SPEAKER", "POKEY", "RF5C68", "WONDERSWAN", "SAA1099", "OPZ",
      "POKEMON_MINI", "AY8930", "SEGAPCM", "VIRTUAL_BOY", "VRC7",
      "YM2610B", "ZX_BEEPER", "YM2612_EX", "SCC", "OPL_DRUMS",
      "OPL2_DRUMS", "OPL3_DRUMS", "NEO_GEO", "NEO_GEO_EX", "OPLL_DRUMS",
      "LYNX", "SEGAPCM_DMF", "MSM6295", "MSM6258", "COMMANDER_X16",
      "BUBBLE_SYSTEM_WSG", "OPL4", "OPL4_DRUMS", "SETA", "ES5506",
      "Y8950", "Y8950_DRUMS", "SCC_PLUS", "TSU", "YM2203_EX", "YM2608_EX",
      "YMZ280B", "NAMCO", "N15XX", "CUS30", "MSM5232", "YM2612_PLUS_EX",
      "YM2612_PLUS", "T6W28", "PCM_DAC", "YM2612_CSM", "NEO_GEO_CSM",
      "YM2203_CSM", "YM2608_CSM", "YM2610B_CSM", "K007232", "GA20",
      "SM8521", "M114S", "ZX_BEEPER_QUADTONE", "PV_1000", "K053260",
      "TED", "NAMCO_C140", "NAMCO_C219", "NAMCO_C352", "ESFM", "ES5503",
      "POWERNOISE", "DAVE", "NDS", "GBA", "GBA_MINMOD", "BIFURCATOR",
      "YM2610B_EX", "QSOUND", "SID2", "FIVEE01", "PONG", "DUMMY",
      "RESERVED_1", "RESERVED_2" }

\* the low n bits of x, for 0 <= x < 2^16
low_bits(x, n) == IF n >= 16 THEN x ELSE IF n <= 0 THEN 0 ELSE x % (2 ^ n)

\* (flag >> sh) & (2^n - 1) on a 32-bit flag <<high, low>>, for n <= 31
shift_mask(flag, sh, n) ==
    IF sh >= 16 THEN low_bits(flag[1] \div (2 ^ (sh - 16)), n)
    ELSE low_bits(flag[2] \div (2 ^ sh), n)
         + low_bits(flag[1], sh + n - 16) * (2 ^ (16 - sh))

\* one entry of a flag map: an int, or a bool as 0 or 1
IntFlag(key, x) == <<key, "int", x>>
BoolFlag(key, x) == <<key, "bool", x>>

\* key = (flag >> sh) & (2^n - 1)
int_field(key, flag, sh, n) == IntFlag(key, shift_mask(flag, sh, n))

\* the boolean taken from the bit below its own
bool_field_bit_below(key, flag, sh) == BoolFlag(key, shift_mask(flag, sh - 1, 1))

\* key = bool((flag >> sh) & 1)
bool_field(key, flag, sh) == BoolFlag(key, shift_mask(flag, sh, 1))

\* SMS: cs = flag & 0xff03; if cs > 0x100: cs = cs - 252
sms_clock_of(cs) == IF cs > 256 THEN cs - 252 ELSE cs

sms_clock_sel(flag) == sms_clock_of((flag[2] % 4) + 256 * (flag[2] \div 256))

\* SMS: ct = (flag & 0xcc) // 4; 32 and up lose 24, 16 and up lose 12
sms_type_of(ct) == IF ct >= 32 THEN ct - 24 ELSE IF ct >= 16 THEN ct - 12 ELSE ct

sms_chip_type(flag) ==
    sms_type_of(((flag[2] \div 4) % 4) + 16 * ((flag[2] \div 64) % 4))

\* __convert_old_chip_flags(chip, flag): the dict as a set of entries
convert_old_chip_flags(chip, flag) ==
    CASE chip \in {"GENESIS", "GENESIS_EX"} ->
            {int_field("clockSel", flag, 0, 31), bool_field("ladderEffect", flag, 31)}
      [] chip = "SMS" ->
            {IntFlag("clockSel", sms_clock_sel(flag)),
             IntFlag("chipType", sms_chip_type(flag)),
             int_field("noPhaseReset", flag, 4, 28)}
      [] chip = "GB" ->
            {int_field("chipType", flag, 0, 2), bool_field("noAntiClick", flag, 3)}
      [] chip = "PCE" ->
            {int_field("clockSel", flag, 0, 1), int_field("chipType", flag, 2, 1),
             bool_field("noAntiClick", flag, 3)}
      [] chip \in {"NES", "VRC6", "FDS", "MMC5"} -> {int_field("clockSel", flag, 0, 2)}
      [] chip \in {"C64_8580", "C64_6581"} -> {int_field("clockSel", flag, 0, 4)}
      [] chip = "SEGA_ARCADE" -> {int_field("clockSel", flag, 0, 8)}
      [] chip \in {"NEO_GEO_CD", "NEO_GEO", "NEO_GEO_EX", "NEO_GEO_CD_EX",
                   "YM2610B", "YM2610B_EX"} -> {int_field("clockSel", flag, 0, 8)}
      [] chip = "AY38910" ->
            {int_field("clockSel", flag, 0, 4), int_field("chipType", flag, 4, 2),
             bool_field("stereo", flag, 6), bool_field("halfClock", flag, 7),
             int_field("stereoSep", flag, 8, 8)}
      [] chip = "AMIGA" ->
            {int_field("clockSel", flag, 0, 1), int_field("chipType", flag, 1, 1),
             bool_field("bypassLimits", flag, 2), int_field("stereoSep", flag, 8, 7)}
      [] chip = "YM2151" -> {int_field("clockSel", flag, 0, 8)}
      [] chip \in {"YM2612", "YM2612_EX", "YM2612_PLUS", "YM2612_PLUS_EX"} ->
            {int_field("clockSel", flag, 0, 31), bool_field("ladderEffect", flag, 31)}
      [] chip = "TIA" ->
            {int_field("clockSel", flag, 0, 1), int_field("mixingType", flag, 1, 2)}
      [] chip = "VIC20" -> {int_field("clockSel", flag, 0, 1)}
      [] chip = "SNES" ->
            {int_field("volScaleL", flag, 0, 7), int_field("volScaleR", flag, 8, 7)}
      [] chip \in {"OPLL", "OPLL_DRUMS"} ->
            {int_field("clockSel", flag, 0, 4), int_field("patchSet", flag, 4, 28)}
      [] chip = "N163" ->
            {int_field("clockSel", flag, 0, 4), int_field("channels", flag, 4, 3),
             bool_field("multiplex", flag, 7)}
      [] chip \in {"OPN", "YM2203_EX"} ->
            {int_field("clockSel", flag, 0, 5), int_field("prescale", flag, 5, 2)}
      [] chip \in {"OPL", "OPL_DRUMS", "OPL2", "OPL2_DRUMS", "Y8950", "Y8950_DRUMS"} ->
            {int_field("clockSel", flag, 0, 8)}
      [] chip \in {"OPL3", "OPL3_DRUMS"} -> {int_field("clockSel", flag, 0, 8)}
      [] chip = "PC_SPEAKER" -> {int_field("speakerType", flag, 0, 2)}
      [] chip = "RF5C68" ->
            {int_field("clockSel", flag, 0, 4), int_field("chipType", flag, 4, 28)}
      [] chip \in {"SAA1099", "OPZ"} -> {int_field("clockSel", flag, 0, 2)}
      [] chip = "AY8930" ->
            {int_field("clockSel", flag, 0, 4), bool_field("stereo", flag, 6),
             bool_field("halfClock", flag, 7), int_field("stereoSep", flag, 8, 8)}
      [] chip = "VRC7" -> {int_field("clockSel", flag, 0, 2)}
      [] chip = "ZX_BEEPER" -> {int_field("clockSel", flag, 0, 1)}
      [] chip \in {"SCC", "SCC_PLUS"} -> {int_field("clockSel", flag, 0, 2)}
      [] chip = "MSM6295" ->
            {int_field("clockSel", flag, 0, 7), bool_field("rateSel", flag, 7)}
      [] chip = "MSM6258" -> {int_field("clockSel", flag, 0, 2)}
      [] chip \in {"OPL4", "OPL4_DRUMS"} -> {int_field("clockSel", flag, 0, 8)}
      [] chip = "SETA" ->
            {int_field("clockSel", flag, 0, 4), bool_field("stereo", flag, 4)}
      [] chip = "ES5506" -> {int_field("channels", flag, 0, 5)}
      [] chip = "TSU" ->
            {int_field("clockSel", flag, 0, 1), bool_field("echo", flag, 2),
             bool_field("swapEcho", flag, 3), int_field("sampleMemSize", flag, 4, 1),
             bool_field("pdm", flag, 5), int_field("echoDelay", flag, 8, 6),
             int_field("echoFeedback", flag, 16, 4),
             int_field("echoResolution", flag, 20, 4),
             int_field("echoVol", flag, 24, 8)}
      [] chip = "YMZ280B" -> {int_field("clockSel", flag, 0, 8)}
      [] chip = "PCM_DAC" ->
            {IntFlag("rate", shift_mask(flag, 0, 16) + 1),
             int_field("outDepth", flag, 16, 4), bool_field("stereo", flag, 20)}
      [] chip = "QSOUND" ->
            {int_field("echoDelay", flag, 0, 13), int_field("echoFeedback", flag, 16, 8)}
      [] OTHER -> {}

\* b'FLAG'
FLAG_MAGIC == <<70, 76, 65, 71>>

\* the white space of str.split(): the code points c with chr(c).isspace()
is_space(b) ==
    b \in {9, 10, 11, 12, 13, 28, 29, 30, 31, 32, 133, 160, 5760, 8232, 8233,
           8239, 8287, 12288} \cup (8192..8202)

\* where the words of a text start
word_starts(t) ==
    {i \in 1..Len(t) : ~is_space(t[i]) /\ (i = 1 \/ is_space(t[i - 1]))}

\* where the word that starts at i ends
word_end(t, i) ==
    CHOOSE j \in i..Len(t) :
        /\ \A k \in i..j : ~is_space(t[k])
        /\ j = Len(t) \/ is_space(t[j + 1])

\* the k-th smallest member of a set of numbers
kth(S, k) == CHOOSE x \in S : Cardinality({y \in S : y < x}) = k - 1

\* the k-th word of the starts ws
word_at(t, ws, k) == SubSeq(t, kth(ws, k), word_end(t, kth(ws, k)))

words_from(t, ws) == [k \in 1..Cardinality(ws) |-> word_at(t, ws, k)]

\* text.split()
str_split(t) == words_from(t, word_starts(t))

\* '=' in the word
has_eq(w) == \E i \in 1..Len(w) : w[i] = 61

first_eq(w) == CHOOSE i \in 1..Len(w) : w[i] = 61 /\ \A j \in 1..(i - 1) : w[j] # 61

\* the text before the first '=', or all of it
until_eq(w) == IF has_eq(w) THEN SubSeq(w, 1, first_eq(w) - 1) ELSE w

\* flag.split('=')[0] and flag.split('=')[1]
entry_key(w) == until_eq(w)
entry_value(w) == until_eq(SubSeq(w, first_eq(w) + 1, Len(w)))

starts_with(v, lit) == Len(v) >= Len(lit) /\ SubSeq(v, 1, Len(lit)) = lit

\* the digit zero of every run of decimal digits (category Nd) of Unicode;
\* the nine code points after each are its digits 1..9
DecimalZeros ==
    {48, 1632, 1776, 1984, 2406, 2534, 2662, 2790, 2918, 3046, 3174, 3302,
     3430, 3558, 3664, 3792, 3872, 4160, 4240, 6112, 6160, 6470, 6608, 6784,
     6800, 6992, 7088, 7232, 7248, 42528, 43216, 43264, 43472, 43504, 43600,
     44016, 65296, 66720, 68912, 69734, 69872, 69942, 70096, 70384, 70736,
     70864, 71248, 71360, 71472, 71904, 72016, 72784, 73040, 73120, 92768,
     92864, 93008, 120782, 120792, 120802, 120812, 120822, 123200, 123632,
     125264, 130032}

\* \d of a str pattern: a decimal digit of any script
is_digit(b) == b \in 48..57 \/ \E z \in DecimalZeros : b \in z..(z + 9)

\* the value of a decimal digit
digit_value(b) ==
    IF b \in 48..57 THEN b - 48
    ELSE b - (CHOOSE z \in DecimalZeros : b \in z..(z + 9))

all_digits(v) == Len(v) >= 1 /\ \A i \in 1..Len(v) : is_digit(v[i])

\* re.match(r'\d+\.\d+', value)
float_prefix(v) ==
    \E a \in 1..Len(v) :
        /\ \A i \in 1..a : is_digit(v[i])
        /\ a + 2 <= Len(v) /\ v[a + 1] = 46 /\ is_digit(v[a + 2])

\* the digits of a float literal: single underscores may stand between them
digit_part(v) ==
    /\ Len(v) >= 1 /\ is_digit(v[1]) /\ is_digit(v[Len(v)])
    /\ \A i \in 1..Len(v) : is_digit(v[i]) \/ v[i] = 95
    /\ \A i \in 1..(Len(v) - 1) : ~(v[i] = 95 /\ v[i + 1] = 95)

\* digits '.' digits
plain_float(v) ==
    \E a \in 1..(Len(v) - 2) :
        /\ all_digits(SubSeq(v, 1, a))
        /\ v[a + 1] = 46
        /\ digit_part(SubSeq(v, a + 2, Len(v)))

\* an exponent after the 'e': an optional sign and digits
exponent(v) ==
    IF Len(v) >= 1 /\ v[1] \in {43, 45} THEN digit_part(SubSeq(v, 2, Len(v)))
    ELSE digit_part(v)

\* float(value) does not raise, for a value that float_prefix matches
float_ok(v) ==
    \/ plain_float(v)
    \/ \E e \in 1..Len(v) :
           /\ v[e] \in {69, 101}
           /\ plain_float(SubSeq(v, 1, e - 1))
           /\ exponent(SubSeq(v, e + 1, Len(v)))

\* int(value) for the first n digits of value
RECURSIVE dec_value(_, _)
dec_value(v, n) ==
    IF n = 0 THEN 0 ELSE dec_value(v, n - 1) * 10 + digit_value(v[n])

\* the literal float() parses: the underscores dropped and every digit as
\* its ASCII digit
numeral(v) ==
    LET K == {i \in 1..Len(v) : v[i] # 95}
    IN  [k \in 1..Cardinality(K) |->
            IF is_digit(v[kth(K, k)]) THEN 48 + digit_value(v[kth(K, k)])
            ELSE v[kth(K, k)]]

\* "cast by regex": the kind of the value, its number, its text.  A float is
\* kept as the literal that float() parses.
cast_value(v) ==
    CASE starts_with(v, <<116, 114, 117, 101>>) -> <<"bool", 1, <<>>>>
      [] starts_with(v, <<102, 97, 108, 115, 101>>) -> <<"bool", 0, <<>>>>
      [] all_digits(v) -> <<"int", dec_value(v, Len(v)), <<>>>>
      [] float_prefix(v) -> <<"float", 0, numeral(v)>>
      [] OTHER -> <<"str", 0, v>>

\* the entry of a word "key=value"
flag_entry(w) == <<entry_key(w)>> \o cast_value(entry_value(w))

\* a word raises: IndexError without '=', ValueError from float()
entry_raises(w) ==
    \/ ~has_eq(w)
    \/ /\ ~starts_with(entry_value(w), <<116, 114, 117, 101>>)
       /\ ~starts_with(entry_value(w), <<102, 97, 108, 115, 101>>)
       /\ ~all_digits(entry_value(w))
       /\ float_prefix(entry_value(w))
       /\ ~float_ok(entry_value(w))

\* the number of words the loop stores before a word raises
words_stored(ws) ==
    IF \A k \in 1..Len(ws) : ~entry_raises(ws[k]) THEN Len(ws)
    ELSE (CHOOSE k \in 1..Len(ws) :
              /\ entry_raises(ws[k])
              /\ \A j \in 1..(k - 1) : ~entry_raises(ws[j])) - 1

\* the dict after the assignments of the first n words: the last entry of
\* each key
flags_stored(ws, n) ==
    {flag_entry(ws[k]) : k \in
        {k \in 1..n : \A j \in (k + 1)..n : entry_key(ws[j]) # entry_key(ws[k])}}

\* the loop over the words: a word that raises ends it, and the entries
\* stored before it stay in the dict
flags_of(ws) ==
    [st |-> IF words_stored(ws) = Len(ws) THEN "done" ELSE "error",
     flags |-> flags_stored(ws, words_stored(ws))]

\* the entries of read_str(flag_blk)
flags_in(text) ==
    IF text.hang THEN [st |-> "hang", flags |-> {}]
    ELSE IF text.bad THEN [st |-> "error", flags |-> {}]
    ELSE flags_of(str_split(text.val))

\* __read_dev119_chip_flags for one chip with pointer ptr: the entries the
\* block adds to the chip's flags
read_dev119_chip_flags(s, ptr) ==
    IF ptr = 0 THEN [st |-> "done", flags |-> {}]
    ELSE IF stream_read(s, ptr, 4).bytes # FLAG_MAGIC \/ ~read_int(s, ptr + 4).ok
    THEN [st |-> "error", flags |-> {}]
    ELSE flags_in(read_str(stream_read(s, ptr + 8,
                                       size_of(read_int(s, ptr + 4).val)).bytes, 0))

\* --- the writer of the FLAG block and the legacy bit layouts ---

\* the name of a flag as text
KeyBytes(key) ==
    CASE
         key = "clockSel" -> <<99, 108, 111, 99, 107, 83, 101, 108>>
      [] key = "ladderEffect" -> <<108, 97, 100, 100, 101, 114, 69, 102, 102, 101, 99, 116>>
      [] key = "chipType" -> <<99, 104, 105, 112, 84, 121, 112, 101>>
      [] key = "noPhaseReset" -> <<110, 111, 80, 104, 97, 115, 101, 82, 101, 115, 101, 116>>
      [] key = "noAntiClick" -> <<110, 111, 65, 110, 116, 105, 67, 108, 105, 99, 107>>
      [] key = "stereo" -> <<115, 116, 101, 114, 101, 111>>
      [] key = "halfClock" -> <<104, 97, 108, 102, 67, 108, 111, 99, 107>>
      [] key = "stereoSep" -> <<115, 116, 101, 114, 101, 111, 83, 101, 112>>
      [] key = "bypassLimits" -> <<98, 121, 112, 97, 115, 115, 76, 105, 109, 105, 116, 115>>
      [] key = "mixingType" -> <<109, 105, 120, 105, 110, 103, 84, 121, 112, 101>>
      [] key = "volScaleL" -> <<118, 111, 108, 83, 99, 97, 108, 101, 76>>
      [] key = "volScaleR" -> <<118, 111, 108, 83, 99, 97, 108, 101, 82>>
      [] key = "patchSet" -> <<112, 97, 116, 99, 104, 83, 101, 116>>
      [] key = "channels" -> <<99, 104, 97, 110, 110, 101, 108, 115>>
      [] key = "multiplex" -> <<109, 117, 108, 116, 105, 112, 108, 101, 120>>
      [] key = "prescale" -> <<112, 114, 101, 115, 99, 97, 108, 101>>
      [] key = "speakerType" -> <<115, 112, 101, 97, 107, 101, 114, 84, 121, 112, 101>>
      [] key = "rateSel" -> <<114, 97, 116, 101, 83, 101, 108>>
      [] key = "echo" -> <<101, 99, 104, 111>>
      [] key = "swapEcho" -> <<115, 119, 97, 112, 69, 99, 104, 111>>
      [] key = "sampleMemSize" -> <<115, 97, 109, 112, 108, 101, 77, 101, 109, 83, 105, 122, 101>>
      [] key = "pdm" -> <<112, 100, 109>>
      [] key = "echoDelay" -> <<101, 99, 104, 111, 68, 101, 108, 97, 121>>
      [] key = "echoFeedback" -> <<101, 99, 104, 111, 70, 101, 101, 100, 98, 97, 99, 107>>
      [] key = "echoResolution" -> <<101, 99, 104, 111, 82, 101, 115, 111, 108, 117, 116, 105, 111, 110>>
      [] key = "echoVol" -> <<101, 99, 104, 111, 86, 111, 108>>
      [] key = "rate" -> <<114, 97, 116, 101>>
      [] key = "outDepth" -> <<111, 117, 116, 68, 101, 112, 116, 104>>

\* n >= 0 in decimal
RECURSIVE decimal(_)
decimal(n) == IF n < 10 THEN <<48 + n>> ELSE decimal(n \div 10) \o <<48 + (n % 10)>>

\* one field of a legacy layout: key, kind, first bit, number of bits.  The
\* kinds: "int" (the bits as a number), "bool" (one bit), "rate" (the bits
\* plus one) and the two SMS selectors that are spread over the word
Bits(key, kind, sh, n) == <<key, kind, sh, n>>

\* the bit layout of the packed word of each chip family; a chip that is not
\* listed has none
chip_layout(chip) ==
    CASE chip \in {"GENESIS", "GENESIS_EX", "YM2612", "YM2612_EX", "YM2612_PLUS",
                   "YM2612_PLUS_EX"} ->
            <<Bits("clockSel", "int", 0, 31), Bits("ladderEffect", "bool", 31, 1)>>
      [] chip = "SMS" ->
            <<Bits("clockSel", "sms_clock", 0, 16), Bits("chipType", "sms_type", 2, 6),
              Bits("noPhaseReset", "bool", 4, 1)>>
      [] chip = "GB" ->
            <<Bits("chipType", "int", 0, 2), Bits("noAntiClick", "bool", 3, 1)>>
      [] chip = "PCE" ->
            <<Bits("clockSel", "int", 0, 1), Bits("chipType", "int", 2, 1),
              Bits("noAntiClick", "bool", 3, 1)>>
      [] chip \in {"NES", "VRC6", "FDS", "MMC5", "SAA1099", "OPZ", "VRC7", "SCC",
                   "SCC_PLUS", "MSM6258"} ->
            <<Bits("clockSel", "int", 0, 2)>>
      [] chip \in {"C64_8580", "C64_6581"} -> <<Bits("clockSel", "int", 0, 4)>>
      [] chip \in {"SEGA_ARCADE", "NEO_GEO_CD", "NEO_GEO", "NEO_GEO_EX",
                   "NEO_GEO_CD_EX", "YM2610B", "YM2610B_EX", "YM2151", "OPL",
                   "OPL_DRUMS", "OPL2", "OPL2_DRUMS", "Y8950", "Y8950_DRUMS",
                   "OPL3", "OPL3_DRUMS", "OPL4", "OPL4_DRUMS", "YMZ280B"} ->
            <<Bits("clockSel", "int", 0, 8)>>
      [] chip = "AY38910" ->
            <<Bits("clockSel", "int", 0, 4), Bits("chipType", "int", 4, 2),
              Bits("stereo", "bool", 6, 1), Bits("halfClock", "bool", 7, 1),
              Bits("stereoSep", "int", 8, 8)>>
      [] chip = "AMIGA" ->
            <<Bits("clockSel", "int", 0, 1), Bits("chipType", "int", 1, 1),
              Bits("bypassLimits", "bool", 2, 1), Bits("stereoSep", "int", 8, 7)>>
      [] chip = "TIA" ->
            <<Bits("clockSel", "int", 0, 1), Bits("mixingType", "int", 1, 2)>>
      [] chip \in {"VIC20", "ZX_BEEPER"} -> <<Bits("clockSel", "int", 0, 1)>>
      [] chip = "SNES" ->
            <<Bits("volScaleL", "int", 0, 7), Bits("volScaleR", "int", 8, 7)>>
      [] chip \in {"OPLL", "OPLL_DRUMS"} ->
            <<Bits("clockSel", "int", 0, 4), Bits("patchSet", "int", 4, 28)>>
      [] chip = "N163" ->
            <<Bits("clockSel", "int", 0, 4), Bits("channels", "int", 4, 3),
              Bits("multiplex", "bool", 7, 1)>>
      [] chip \in {"OPN", "YM2203_EX"} ->
            <<Bits("clockSel", "int", 0, 5), Bits("prescale", "int", 5, 2)>>
      [] chip = "PC_SPEAKER" -> <<Bits("speakerType", "int", 0, 2)>>
      [] chip = "RF5C68" ->
            <<Bits("clockSel", "int", 0, 4), Bits("chipType", "int", 4, 28)>>
      [] chip = "AY8930" ->
            <<Bits("clockSel", "int", 0, 4), Bits("stereo", "bool", 6, 1),
              Bits("halfClock", "bool", 7, 1), Bits("stereoSep", "int", 8, 8)>>
      [] chip = "MSM6295" ->
            <<Bits("clockSel", "int", 0, 7), Bits("rateSel", "bool", 7, 1)>>
      [] chip = "SETA" ->
            <<Bits("clockSel", "int", 0, 4), Bits("stereo", "bool", 4, 1)>>
      [] chip = "ES5506" -> <<Bits("channels", "int", 0, 5)>>
      [] chip = "TSU" ->
            <<Bits("clockSel", "int", 0, 1), Bits("echo", "bool", 2, 1),
              Bits("swapEcho", "bool", 3, 1), Bits("sampleMemSize", "int", 4, 1),
              Bits("pdm", "bool", 5, 1), Bits("echoDelay", "int", 8, 6),
              Bits("echoFeedback", "int", 16, 4),
              Bits("echoResolution", "int", 20, 4), Bits("echoVol", "int", 24, 8)>>
      [] chip = "PCM_DAC" ->
            <<Bits("rate", "rate", 0, 16), Bits("outDepth", "int", 16, 4),
              Bits("stereo", "bool", 20, 1)>>
      [] chip = "QSOUND" ->
            <<Bits("echoDelay", "int", 0, 13), Bits("echoFeedback", "int", 16, 8)>>
      [] OTHER -> <<>>

\* the value of field b in the word: a field holds its own bits only
layout_value(b, flag) ==
    CASE b[2] = "sms_clock" -> sms_clock_sel(flag)
      [] b[2] = "sms_type" -> sms_chip_type(flag)
      [] b[2] = "rate" -> shift_mask(flag, b[3], b[4]) + 1
      [] OTHER -> shift_mask(flag, b[3], b[4])

\* the configuration of a chip that the word stands for: key, "bool" or
\* "int", value
logical_entry(b, flag) ==
    <<b[1], IF b[2] = "bool" THEN "bool" ELSE "int", layout_value(b, flag)>>

logical_config(chip, flag) ==
    [i \in 1..Len(chip_layout(chip)) |-> logical_entry(chip_layout(chip)[i], flag)]

\* one line of the FLAG text: key=true, key=false or key=<decimal>
flag_line(e) ==
    KeyBytes(e[1]) \o <<61>>
    \o (IF e[2] = "bool"
        THEN (IF e[3] = 1 THEN <<116, 114, 117, 101>> ELSE <<102, 97, 108, 115, 101>>)
        ELSE decimal(e[3]))
    \o <<10>>

flag_text(config) == Concat([i \in 1..Len(config) |-> flag_line(config[i])])

\* the FLAG block of a text: magic, size, the text and its terminator
flag_block(text) == FLAG_MAGIC \o S32(Len(text) + 1) \o text \o <<0>>

\* the offset of the FLAG block in the streams of the model
FlagPtr == 32

\* the stream of a chip: nothing for a chip without flags, else the block at
\* FlagPtr
flag_stream(config) ==
    IF Len(config) = 0 THEN <<>> ELSE Zeros(FlagPtr) \o flag_block(flag_text(config))

\* the halves of the packed words
ChipHighs == {0, 1, 16, 32768, 65535}
ChipLows == {0, 3, 16, 64, 80, 140, 255, 256, 257, 65535}

ChipInit ==
    /\ OthersIdle("chip")
    /\ chip_type \in ChipTypes
    /\ chip_word \in ChipHighs \X ChipLows
    /\ chip_stream = flag_stream(logical_config(chip_type, chip_word))
    /\ chip_flag_ptr = IF Len(chip_layout(chip_type)) = 0 THEN 0 ELSE FlagPtr
    /\ chip_old = {}
    /\ chip_new = [st |-> "idle"]
    /\ chpc = "start"

\* self.__convert_old_chip_flags(self.chips.list[i].type, flag)
ChipConvertOld ==
    /\ chpc = "start"
    /\ chip_old' = convert_old_chip_flags(chip_type, chip_word)
    /\ chpc' = "old"
    /\ UNCHANGED <<chip_type, chip_word, chip_stream, chip_flag_ptr, chip_new>>
    /\ UNCHANGED nonChipVars

\* self.__read_dev119_chip_flags(stream)
ChipReadDev119 ==
    /\ chpc = "old"
    /\ chip_new' = read_dev119_chip_flags(chip_stream, chip_flag_ptr)
    /\ chpc' = "done"
    /\ UNCHANGED <<chip_type, chip_word, chip_stream, chip_flag_ptr, chip_old>>
    /\ UNCHANGED nonChipVars

ChipNext == ChipConvertOld \/ ChipReadDev119

ChipSpec == ChipInit /\ [][ChipNext]_vars

\* the chips whose layout keeps bit 31 as a boolean and bits 0..30 as the
\* clock selector
Bit31Chips ==
    {"GENESIS", "GENESIS_EX", "YM2612", "YM2612_EX", "YM2612_PLUS", "YM2612_PLUS_EX"}

\* C8: __convert_old_chip_flags gives, for every flag word w, exactly
\* {clockSel: w & 0x7FFFFFFF, ladderEffect: bit 31 of w} for GENESIS,
\* GENESIS_EX and the YM2612 variants, so {clockSel: 3, ladderEffect: True}
\* for 0x80000003, and the empty map for a chip without a layout; the result
\* depends on the chip and the word only.
C8_ConvertOldChipFlags ==
    chpc \in {"old", "done"} =>
        /\ chip_type \in Bit31Chips =>
               chip_old = {<<"clockSel", "int", (chip_word[1] % 32768) * 65536 + chip_word[2]>>,
                           <<"ladderEffect", "bool", chip_word[1] \div 32768>>}
        /\ (chip_type \in Bit31Chips /\ chip_word = <<32768, 3>>) =>
               chip_old = {<<"clockSel", "int", 3>>, <<"ladderEffect", "bool", 1>>}
        /\ Len(chip_layout(chip_type)) = 0 => chip_old = {}
        /\ chip_old = convert_old_chip_flags(chip_type, chip_word)

\* 0x80000003 converted for a YM2612
C8_Witness ==
    /\ chpc = "old" /\ chip_type = "YM2612" /\ chip_word = <<32768, 3>>
    /\ chip_old = {<<"clockSel", "int", 3>>, <<"ladderEffect", "bool", 1>>}

\* a chip without a layout converted
NoLayoutReached == chpc = "old" /\ chip_type = "POKEY" /\ chip_old = {}

\* an entry of the old map and an entry of the new map hold the same value:
\* True is 1 and False is 0
values_agree(f, g) == g[2] \in {"bool", "int"} /\ g[3] = f[3]

\* the two maps agree on every key they share
maps_agree(old, new) ==
    \A f \in old : \A g \in new : g[1] = KeyBytes(f[1]) => values_agree(f, g)

\* C9: for every chip with a legacy layout and every packed word, the map
\* converted from the word and the map read from the FLAG block of the same
\* configuration agree on every key present in both.
C9_OldAndNewFlagsAgree ==
    chpc = "done" => /\ chip_new.st = "done"
                     /\ maps_agree(chip_old, chip_new.flags)

\* the FLAG block gives back the configuration it was written from
FlagBlockReadsConfig ==
    chpc = "done" =>
        chip_new = [st |-> "done",
                    flags |-> {<<KeyBytes(e[1]), e[2], e[3], <<>>>> :
                                  e \in {logical_config(chip_type, chip_word)[i] :
                                            i \in 1..Len(chip_layout(chip_type))}}]

\* every chip but the SMS agrees, and the SMS agrees on words with no bit
\* above bit 4
OldAndNewAgreeButSms ==
    (chpc = "done" /\ (chip_type # "SMS" \/ (chip_word[1] = 0 /\ chip_word[2] < 32)))
        => maps_agree(chip_old, chip_new.flags)

\* ------------------------------------------------------------------------
\* Wavetables (src/chipchune/furnace/wavetable.py)
\* ------------------------------------------------------------------------

\* FILE_MAGIC_STR of wavetable.py: b'-Furnace waveta-'
WAVE_FILE_MAGIC_STR ==
    <<45, 70, 117, 114, 110, 97, 99, 101, 32, 119, 97, 118, 101, 116, 97, 45>>

\* EMBED_MAGIC_STR of wavetable.py: b'WAVE'
WAVE_EMBED_MAGIC_STR == <<87, 65, 86, 69>>

\* a FurnaceWavetable as load_from_stream leaves it: st is "ok" when the
\* load returns, the name of the exception when it raises and "hang" when
\* read_str never returns; the fields that were not reached keep the values
\* of WavetableMeta() and of self.data = []
FurnaceWavetable(st, name, width, height, data) ==
    [st |-> st, name |-> name, width |-> width, height |-> height,
     data |-> data]

\* [read_int(wt_data) for _ in range(self.meta.width)], all values present
wave_data(ws, p, width) ==
    [i \in 1..size_of(width) |-> read_int(ws, p + 4 * (i - 1)).val]

\* __load_embed after self.meta.width is set, with the stored height kept as
\* it is
wave_after_width_height_as_stored(name, width, ws, p) ==
    IF p + 8 > Len(ws)
    THEN FurnaceWavetable("struct.error", name, width, IntVal(32), <<>>)
    ELSE IF size_of(width) > (Len(ws) - (p + 8)) \div 4
    THEN FurnaceWavetable("struct.error", name, width,
                          read_int(ws, p + 4).val, <<>>)
    ELSE FurnaceWavetable("ok", name, width, read_int(ws, p + 4).val,
                          wave_data(ws, p + 8, width))

\* __load_embed after self.meta.width is set: four reserved bytes, the
\* height and width values.  A read past the end of wt_data raises
\* struct.error and leaves the fields set so far.
wave_after_width(name, width, ws, p) ==
    IF p + 8 > Len(ws)
    THEN FurnaceWavetable("struct.error", name, width, IntVal(32), <<>>)
    ELSE IF size_of(width) > (Len(ws) - (p + 8)) \div 4
    THEN FurnaceWavetable("struct.error", name, width,
                          int_add(read_int(ws, p + 4).val, 1), <<>>)
    ELSE FurnaceWavetable("ok", name, width, int_add(read_int(ws, p + 4).val, 1),
                          wave_data(ws, p + 8, width))

\* __load_embed after self.meta.name is set
wave_after_name(name, ws, p) ==
    IF ~read_int(ws, p).ok
    THEN FurnaceWavetable("struct.error", name, IntVal(32), IntVal(32), <<>>)
    ELSE wave_after_width(name, read_int(ws, p).val, ws, p + 4)

\* __load_embed from wt_data on
wave_fields(ws, p) ==
    IF read_str(ws, p).hang
    THEN FurnaceWavetable("hang", <<>>, IntVal(32), IntVal(32), <<>>)
    ELSE IF read_str(ws, p).bad
    THEN FurnaceWavetable("UnicodeDecodeError", <<>>, IntVal(32), IntVal(32), <<>>)
    ELSE wave_after_name(read_str(ws, p).val, ws, read_str(ws, p).pos)

\* wt_data: the block as a stream of its own when blk_size > 0, the stream
\* itself otherwise
wt_data(s, p, blk_size) ==
    IF blk_size > 0
    THEN [s |-> stream_read(s, p, blk_size).bytes, p |-> 0]
    ELSE [s |-> s, p |-> p]

wave_block_fields(wt) == wave_fields(wt.s, wt.p)

\* FurnaceWavetable.__load_embed(stream), the stream at offset p
load_embed(s, p) ==
    IF stream_read(s, p, 4).bytes # WAVE_EMBED_MAGIC_STR
    THEN FurnaceWavetable("RuntimeError", <<>>, IntVal(32), IntVal(32), <<>>)
    ELSE IF ~read_int(s, p + 4).ok
    THEN FurnaceWavetable("struct.error", <<>>, IntVal(32), IntVal(32), <<>>)
    ELSE wave_block_fields(wt_data(s, p + 8, size_of(read_int(s, p + 4).val)))

\* FurnaceWavetable.load_from_stream(stream, import_as), the stream at
\* offset p
wave_load_from_stream(s, p, import_as) ==
    IF import_as = "FILE"
    THEN IF stream_read(s, p, 16).bytes # WAVE_FILE_MAGIC_STR
         THEN FurnaceWavetable("ValueError", <<>>, IntVal(32), IntVal(32), <<>>)
         ELSE IF p + 20 > Len(s)
         THEN FurnaceWavetable("struct.error", <<>>, IntVal(32), IntVal(32), <<>>)
         ELSE load_embed(s, p + 20)
    ELSE IF import_as = "EMBED"
    THEN load_embed(s, p)
    ELSE FurnaceWavetable("ValueError", <<>>, IntVal(32), IntVal(32), <<>>)

\* The blocks the loads are checked on, laid out in the order __load_embed
\* consumes them.

MaxWaveLen == 3

WaveNames == {<<>>, <<115, 97, 119>>}

\* the height fields, 0xffffffff among them
WaveHeights ==
    {IntVal(0), IntVal(15), IntVal(31), IntVal(255), <<"int", 65535, 65535>>}

\* the amplitude values, 0x80000000 among them
WaveValues == {IntVal(0), IntVal(31), IntVal(300), <<"int", 32768, 0>>}

WaveSizes == {"none", "exact", "short"}

\* the entries of the wavetable pointer list: 0 ends the list, 5 is the
\* offset of a block
WavePtrs == {0, 5}

\* name, width, reserved, height, values
wave_body(name, w, h, vals) ==
    name \o <<0>> \o S32(w) \o S32(0) \o U32(h)
         \o Concat([i \in 1..Len(vals) |-> U32(vals[i])])

\* the size field: 0 for a block without a size, the size of the body, or
\* one byte less than the body needs
wave_blk_size(size, body) ==
    IF size = "none" THEN 0
    ELSE IF size = "exact" THEN Len(body) ELSE Len(body) - 1

wave_block(size, body) ==
    WAVE_EMBED_MAGIC_STR \o S32(wave_blk_size(size, body)) \o body

\* the standalone file: signature, version, two reserved bytes, the block
wave_file_of(block) == WAVE_FILE_MAGIC_STR \o <<200, 0, 0, 0>> \o block

\* a module that holds the block at offset ptr, followed by other blocks;
\* with the pointer 0 the block is there and is not pointed to
wave_module_of(ptr, block) == Rep(<<170>>, ptr) \o block \o <<1, 2, 3, 4, 5>>

WaveInit ==
    /\ OthersIdle("wave")
    /\ wave_name \in WaveNames
    /\ wave_w \in 0..MaxWaveLen
    /\ wave_h \in WaveHeights
    /\ wave_vals \in [1..wave_w -> WaveValues]
    /\ wave_size \in WaveSizes
    /\ wave_ptr \in WavePtrs
    /\ wave_file_stream =
           wave_file_of(wave_block(wave_size,
                                   wave_body(wave_name, wave_w, wave_h, wave_vals)))
    /\ wave_embed_stream =
           wave_module_of(wave_ptr,
                          wave_block(wave_size,
                                     wave_body(wave_name, wave_w, wave_h, wave_vals)))
    /\ wave_file = [st |-> "idle"]
    /\ wave_embed = [st |-> "idle"]
    /\ wvpc = "start"

\* FurnaceWavetable().load_from_stream(f, _FurWavetableImportType.FILE)
WaveLoadFile ==
    /\ wvpc = "start"
    /\ wave_file' = wave_load_from_stream(wave_file_stream, 0, "FILE")
    /\ wvpc' = "file"
    /\ UNCHANGED <<wave_name, wave_w, wave_h, wave_vals, wave_size, wave_ptr,
                   wave_file_stream, wave_embed_stream, wave_embed>>
    /\ UNCHANGED nonWaveVars

\* one pass of the loop of __read_wavetables over the pointer i = wave_ptr:
\* `if i == 0: break`, and nothing is loaded; otherwise stream.seek(i);
\* new_wt.load_from_stream(stream, _FurWavetableImportType.EMBED)
WaveLoadEmbed ==
    /\ wvpc = "file"
    /\ wave_embed' = IF wave_ptr = 0 THEN [st |-> "break"]
                      ELSE wave_load_from_stream(wave_embed_stream, wave_ptr,
                                                 "EMBED")
    /\ wvpc' = "done"
    /\ UNCHANGED <<wave_name, wave_w, wave_h, wave_vals, wave_size, wave_ptr,
                   wave_file_stream, wave_embed_stream, wave_file>>
    /\ UNCHANGED nonWaveVars

WaveNext == WaveLoadFile \/ WaveLoadEmbed

WaveSpec == WaveInit /\ [][WaveNext]_vars

\* the fields of a loaded wavetable are the stored ones, the height one more
wave_as_stored(wt) ==
    /\ wt.width = IntVal(wave_w)
    /\ wt.height = int_add(wave_h, 1)
    /\ Len(wt.data) = wave_w
    /\ wt.data = wave_vals

\* the embedded block has been loaded: the loop did not end on a pointer 0
wave_embed_loaded == wvpc = "done" /\ wave_ptr # 0

\* C10: a WAVE block with the width field w and the height field h loads
\* with meta.width = w, meta.height = h + 1 (31 loads as 32) and data the w
\* stored values in stream order, and the standalone file and the embedded
\* block load to the same wavetable; a block that holds all its fields does
\* load.
C10_WaveBlockDecoded ==
    /\ (wvpc \in {"file", "done"} /\ wave_size # "short") =>
           wave_file.st = "ok" /\ wave_as_stored(wave_file)
    /\ (wave_embed_loaded /\ wave_size # "short") =>
           wave_embed.st = "ok" /\ wave_as_stored(wave_embed)
    /\ (wave_embed_loaded /\ wave_h = IntVal(31) /\ wave_embed.st = "ok") =>
           wave_embed.height = IntVal(32) /\ wave_file.height = IntVal(32)
    /\ wave_embed_loaded => wave_file = wave_embed

\* a block of three values with the height field 31, loaded in both forms
C10_Witness ==
    /\ wvpc = "done" /\ wave_w = 3 /\ wave_h = IntVal(31) /\ wave_size = "exact"
    /\ wave_vals = <<IntVal(0), IntVal(300), IntVal(31)>> /\ wave_ptr = 5
    /\ wave_file.st = "ok" /\ wave_file.height = IntVal(32)
    /\ wave_embed.data = <<IntVal(0), IntVal(300), IntVal(31)>>

\* a size field that is too small makes both loads raise
ShortWaveBlockRaises ==
    (wave_embed_loaded /\ wave_size = "short") =>
        wave_file.st = "struct.error" /\ wave_embed.st = "struct.error"

\* a pointer 0 ends the loop: no wavetable is loaded from the stream
ZeroWavePointerBreaks ==
    wvpc = "done" /\ wave_ptr = 0 /\ wave_embed = [st |-> "break"]

\* a block without a size field loaded from inside a module
UnsizedWaveReached ==
    wvpc = "done" /\ wave_size = "none" /\ wave_ptr = 5 /\ wave_w = 2
        /\ wave_embed.st = "ok"

\* ------------------------------------------------------------------------
\* Featural instruments (src/chipchune/furnace/instrument.py)
\* ------------------------------------------------------------------------

\* DEV127_FILE_MAGIC_STR: b'FINS'
DEV127_FILE_MAGIC_STR == <<70, 73, 78, 83>>

\* DEV127_EMBED_MAGIC_STR: b'INS2'
DEV127_EMBED_MAGIC_STR == <<73, 78, 83, 50>>

\* b'EN', the code that ends the feature list
EN == <<69, 78>>

\* the feature codes of self.__map_to_fn
NA == <<78, 65>>
FM == <<70, 77>>
MA == <<77, 65>>
C64 == <<54, 52>>
GB == <<71, 66>>
SM == <<83, 77>>
O1 == <<79, 49>>
O2 == <<79, 50>>
O3 == <<79, 51>>
O4 == <<79, 52>>
LD == <<76, 68>>
SN == <<83, 78>>
N1 == <<78, 49>>
FD == <<70, 68>>
WS == <<87, 83>>
SL == <<83, 76>>
WL == <<87, 76>>
MP == <<77, 80>>
SU == <<83, 85>>
ES == <<69, 83>>
X1 == <<88, 49>>
NE == <<78, 69>>
PN == <<80, 78>>
S2 == <<83, 50>>

\* the keys of self.__map_to_fn
map_to_fn_codes ==
    {NA, FM, MA, C64, GB, SM, O1, O2, O3, O4, LD, SN, N1, FD, WS, SL, WL, MP,
     SU, ES, X1, NE, PN, S2}

\* the outcome of a feature loader: the feature, or the exception it raises
\* ("hang" when read_str never returns)
Feature(code, val) == [st |-> "ok", code |-> code, val |-> val]

FeatureError(err) == [st |-> err, code |-> <<>>, val |-> <<>>]

\* __load_na_block: InsFeatureName(read_str(stream))
load_na_block(b) ==
    IF read_str(b, 0).hang THEN FeatureError("hang")
    ELSE IF read_str(b, 0).bad THEN FeatureError("UnicodeDecodeError")
    ELSE Feature(NA, read_str(b, 0).val)

\* __load_ma_block: __common_ma_block(stream, InsFeatureMacro)
load_ma_block(b) ==
    IF common_ma_block(b).st = "done"
    THEN Feature(MA, common_ma_block(b).macros)
    ELSE FeatureError("error")

\* __load_o1_block .. __load_o4_block: __common_ma_block with OpMacroCode.
\* The loop ends when the code read equals MacroCode.STOP (255), and
\* OpMacroCode(255) raises ValueError since OpMacroCode has the members
\* 0..19 only; every other path ends in a read_byte at the end of the block
\* (struct.error) or in another invalid code.  The loaders never return.
load_op_block(b) == FeatureError("error")

\* __load_ld_block
load_ld_block(b) ==
    IF Len(b) < 7 THEN FeatureError("struct.error")
    ELSE Feature(LD, <<b[1] % 2 = 1, read_short(b, 1).val,
                       read_short(b, 3).val, read_short(b, 5).val>>)

\* __load_n1_block
load_n1_block(b) ==
    IF Len(b) < 7 THEN FeatureError("struct.error")
    ELSE Feature(N1, <<read_int(b, 0).val, b[5], b[6], b[7]>>)

\* the keys of pt.pointers in the order they are first stored
pointer_keys(b, n) ==
    LET first == {i \in 1..n : \A j \in 1..(i - 1) : b[1 + j] # b[1 + i]}
        nth(k) == CHOOSE i \in first : Cardinality({j \in first : j < i}) = k - 1
    IN  [k \in 1..Cardinality(first) |-> b[1 + nth(k)]]

\* the pointers read for the keys
pointers_read(b, n, keys) ==
    {<<keys[k], read_int(b, 1 + n + 4 * (k - 1)).val>> : k \in 1..Len(keys)}

\* __common_pointers_block: num_entries keys, then one pointer for every
\* key of the dictionary
common_pointers_block(code, b) ==
    IF Len(b) < 1 \/ Len(b) < 1 + b[1] THEN FeatureError("struct.error")
    ELSE IF Len(b) < 1 + b[1] + 4 * Len(pointer_keys(b, b[1]))
    THEN FeatureError("struct.error")
    ELSE Feature(code, pointers_read(b, b[1], pointer_keys(b, b[1])))

\* __load_mp_block
load_mp_block(b) ==
    IF Len(b) < 9 THEN FeatureError("struct.error")
    ELSE Feature(MP, SubSeq(b, 1, 9))

\* __load_su_block
load_su_block(b) ==
    IF Len(b) < 1 THEN FeatureError("struct.error")
    ELSE Feature(SU, <<b[1] # 0>>)

\* __load_x1_block
load_x1_block(b) ==
    IF Len(b) < 4 THEN FeatureError("struct.error")
    ELSE Feature(X1, <<read_int(b, 0).val>>)

\* __load_pn_block
load_pn_block(b) ==
    IF Len(b) < 1 THEN FeatureError("struct.error")
    ELSE Feature(PN, <<b[1]>>)

\* __load_s2_block: volume, wave_mix, noise_mode
load_s2_block(b) ==
    IF Len(b) < 1 THEN FeatureError("struct.error")
    ELSE Feature(S2, <<b[1] % 16, (b[1] \div 16) % 4, (b[1] \div 64) % 4>>)

\* (x >> sh) & (2^n - 1)
bit_field(x, sh, n) == (x \div (2 ^ sh)) % (2 ^ n)

\* InsFMOperator(tl, ar, dr, sl, rr, mult, dt): the other fields at the
\* defaults of the dataclass
InsFMOperator(tl, ar, dr, sl, rr, mult, dt) ==
    [am |-> FALSE, ar |-> ar, dr |-> dr, mult |-> mult, rr |-> rr, sl |-> sl,
     tl |-> tl, dt2 |-> 0, rs |-> 0, dt |-> dt, d2r |-> 0, ssg_env |-> 0,
     dam |-> 0, dvb |-> 0, egt |-> FALSE, ksl |-> 0, sus |-> FALSE,
     vib |-> FALSE, ws |-> 0, ksr |-> FALSE, enable |-> TRUE, kvs |-> 2]

\* the op_list of InsFeatureFM()
fm_default_ops ==
    << InsFMOperator(42, 31, 8, 15, 3, 5, 5), InsFMOperator(48, 31, 4, 11, 1, 1, 5),
       InsFMOperator(18, 31, 10, 15, 4, 1, 0), InsFMOperator(2, 31, 9, 15, 9, 1, 0) >>

\* the operator o from its eight bytes d; enable is not stored there
fm_op_read(enable, d) ==
    [ksr |-> BitSet(d[1], 128), dt |-> bit_field(d[1], 4, 3), mult |-> d[1] % 16,
     sus |-> BitSet(d[2], 128), tl |-> d[2] % 128,
     rs |-> bit_field(d[3], 6, 2), vib |-> BitSet(d[3], 32), ar |-> d[3] % 32,
     am |-> BitSet(d[4], 128), ksl |-> bit_field(d[4], 5, 2), dr |-> d[4] % 32,
     egt |-> BitSet(d[5], 128), kvs |-> bit_field(d[5], 5, 2), d2r |-> d[5] % 32,
     sl |-> bit_field(d[6], 4, 4), rr |-> d[6] % 16,
     dvb |-> bit_field(d[7], 4, 4), ssg_env |-> d[7] % 16,
     dam |-> bit_field(d[8], 5, 3), dt2 |-> bit_field(d[8], 3, 2), ws |-> d[8] % 8,
     enable |-> enable]

\* fm.op_list after the base data and ops operators are read
fm_op_list(b, ops) ==
    [op \in 1..4 |->
        IF op <= ops
        THEN fm_op_read(BitSet(b[1], 8 * (2 ^ op)),
                        SubSeq(b, 8 * op - 3, 8 * op + 4))
        ELSE [fm_default_ops[op] EXCEPT !.enable = BitSet(b[1], 8 * (2 ^ op))]]

\* __load_fm_block: four bytes of base data, then eight bytes for each of
\* the `ops` operators of the first byte; op_list has four entries, so the
\* fifth operator raises IndexError once its bytes are read
load_fm_block(b) ==
    IF Len(b) < 4 \/ Len(b) < 4 + 8 * Min(b[1] % 16, 5)
    THEN FeatureError("struct.error")
    ELSE IF b[1] % 16 > 4 THEN FeatureError("IndexError")
    ELSE Feature(FM, [alg |-> bit_field(b[2], 4, 3), fb |-> b[2] % 8,
                      fms2 |-> bit_field(b[3], 5, 3), ams |-> bit_field(b[3], 3, 2),
                      fms |-> b[3] % 8, ams2 |-> bit_field(b[4], 6, 2),
                      ops |-> IF BitSet(b[4], 32) THEN 4 ELSE 2,
                      opll_preset |-> b[4] % 32,
                      op_list |-> fm_op_list(b, b[1] % 16)])

\* __load_c64_block
load_c64_block(b) ==
    IF Len(b) < 8 THEN FeatureError("struct.error")
    ELSE Feature(C64,
            [duty_is_abs |-> BitSet(b[1], 128), init_filter |-> BitSet(b[1], 64),
             vol_is_cutoff |-> BitSet(b[1], 32), to_filter |-> BitSet(b[1], 16),
             noise_on |-> BitSet(b[1], 8), pulse_on |-> BitSet(b[1], 4),
             saw_on |-> BitSet(b[1], 2), tri_on |-> BitSet(b[1], 1),
             osc_sync |-> BitSet(b[2], 128), ring_mod |-> BitSet(b[2], 64),
             no_test |-> BitSet(b[2], 32), filter_is_abs |-> BitSet(b[2], 16),
             ch3_off |-> BitSet(b[2], 8), bp |-> BitSet(b[2], 4),
             hp |-> BitSet(b[2], 2), lp |-> BitSet(b[2], 1),
             envelope |-> [a |-> b[3] \div 16, d |-> b[3] % 16,
                           s |-> b[4] \div 16, r |-> b[4] % 16],
             duty |-> read_short(b, 4).val,
             cut |-> read_short(b, 6).val % 1024,
             res |-> bit_field(read_short(b, 6).val, 12, 4)])

\* entry i of the hardware sequence: the command byte, GBHwCommand of it,
\* then two data bytes
gb_hw_entry(b, i) ==
    IF Len(b) < 5 + 3 * i THEN FeatureError("struct.error")
    ELSE IF b[5 + 3 * i] \notin GBHwCommands THEN FeatureError("ValueError")
    ELSE IF Len(b) < 7 + 3 * i THEN FeatureError("struct.error")
    ELSE [st |-> "ok", command |-> b[5 + 3 * i],
          data |-> <<b[6 + 3 * i], b[7 + 3 * i]>>]

\* the entries of the hardware sequence, or the first exception
gb_hw_seq(gb, es) ==
    IF \E i \in 1..Len(es) : es[i].st # "ok"
    THEN FeatureError(es[CHOOSE i \in 1..Len(es) :
                            /\ es[i].st # "ok"
                            /\ \A j \in 1..(i - 1) : es[j].st = "ok"].st)
    ELSE Feature(GB, [gb EXCEPT !.hw_seq =
                        [i \in 1..Len(es) |->
                            [command |-> es[i].command, data |-> es[i].data]]])

\* __load_gb_block
load_gb_block(b) ==
    IF Len(b) < 4 THEN FeatureError("struct.error")
    ELSE gb_hw_seq([env_vol |-> b[1] % 16, env_dir |-> bit_field(b[1], 4, 1),
                    env_len |-> bit_field(b[1], 5, 3), sound_len |-> b[2],
                    soft_env |-> BitSet(b[3], 1), always_init |-> BitSet(b[3], 2),
                    hw_seq |-> <<>>],
                   [i \in 1..b[4] |-> gb_hw_entry(b, i - 1)])

\* len(sm.sample_map) of InsFeatureAmiga() and of InsFeatureDPCMMap()
SampleMapLen == 120

\* __load_sm_block: the note map is read when use_note_map is set
load_sm_block(b) ==
    IF Len(b) < 4 \/ (BitSet(b[3], 1) /\ Len(b) < 4 + 4 * SampleMapLen)
    THEN FeatureError("struct.error")
    ELSE Feature(SM,
            [init_sample |-> read_short(b, 0).val, use_wave |-> BitSet(b[3], 4),
             use_sample |-> BitSet(b[3], 2), use_note_map |-> BitSet(b[3], 1),
             wave_len |-> b[4],
             sample_map |->
                 [i \in 1..SampleMapLen |->
                     IF BitSet(b[3], 1)
                     THEN [freq |-> read_short(b, 4 * i).val,
                           sample_index |-> read_short(b, 4 * i + 2).val]
                     ELSE [freq |-> 0, sample_index |-> 0]]])

\* __load_fd_block
load_fd_block(b) ==
    IF Len(b) < 41 THEN FeatureError("struct.error")
    ELSE Feature(FD, [mod_speed |-> read_int(b, 0).val,
                      mod_depth |-> read_int(b, 4).val,
                      init_table_with_first_wave |-> b[9] # 0,
                      mod_table |-> SubSeq(b, 10, 41)])

\* __load_ws_block: WaveFX(read_byte(stream)) is the tenth byte
load_ws_block(b) ==
    IF Len(b) < 10 THEN FeatureError("struct.error")
    ELSE IF b[10] \notin WaveFXs THEN FeatureError("ValueError")
    ELSE IF Len(b) < 17 THEN FeatureError("struct.error")
    ELSE Feature(WS, [wave_indices |-> <<read_int(b, 0).val, read_int(b, 4).val>>,
                      rate_divider |-> b[9], effect |-> b[10],
                      enabled |-> BitSet(b[11], 1),
                      global_effect |-> BitSet(b[12], 1),
                      speed |-> b[13], params |-> SubSeq(b, 14, 17)])

\* __load_es_block: ESFilterMode(read_byte(stream)) is the first byte
load_es_block(b) ==
    IF Len(b) < 1 THEN FeatureError("struct.error")
    ELSE IF b[1] \notin ESFilterModes THEN FeatureError("ValueError")
    ELSE IF Len(b) < 13 THEN FeatureError("struct.error")
    ELSE Feature(ES, [filter_mode |-> b[1], k1 |-> read_short(b, 1).val,
                      k2 |-> read_short(b, 3).val,
                      env_count |-> read_short(b, 5).val,
                      left_volume_ramp |-> b[8], right_volume_ramp |-> b[9],
                      k1_ramp |-> b[10], k2_ramp |-> b[11],
                      k1_slow |-> b[12], k2_slow |-> b[13]])

\* __load_ne_block: the entries of sample_map are SampleMap() objects, to
\* which pitch and delta are added when use_map is set
load_ne_block(b) ==
    IF Len(b) < 1 \/ (BitSet(b[1], 1) /\ Len(b) < 1 + 2 * SampleMapLen)
    THEN FeatureError("struct.error")
    ELSE Feature(NE,
            [use_map |-> BitSet(b[1], 1),
             sample_map |->
                 [i \in 1..SampleMapLen |->
                     IF BitSet(b[1], 1)
                     THEN [freq |-> 0, sample_index |-> 0,
                           pitch |-> b[2 * i], delta |-> b[2 * i + 1]]
                     ELSE [freq |-> 0, sample_index |-> 0]]])

\* gain_mode = current & 0b111; if current < 4: gain_mode = 0
sn_gain_mode(current) ==
    IF current < 4 THEN 0 ELSE current % 8

\* the fifth byte, read from version 131 on: sus and d2
sn_d2s(sn, b, v) ==
    IF v < 131 THEN Feature(SN, sn)
    ELSE IF Len(b) < 5 THEN FeatureError("struct.error")
    ELSE Feature(SN, [sn EXCEPT !.sus = (b[5] \div 32) % 4, !.d2 = b[5] % 32])

\* __load_sn_block(stream) on an instrument of version v
load_sn_block(b, v) ==
    IF Len(b) < 4 THEN FeatureError("struct.error")
    ELSE IF sn_gain_mode(b[3]) \notin GainModes THEN FeatureError("ValueError")
    ELSE sn_d2s([envelope |-> [d |-> b[1] \div 16, a |-> b[1] % 16,
                               s |-> b[2] \div 16, r |-> b[2] % 16],
                 use_env |-> (b[3] \div 16) % 2 = 1,
                 sus |-> (b[3] \div 8) % 2,
                 gain_mode |-> sn_gain_mode(b[3]),
                 gain |-> b[4],
                 d2 |-> 0],
                b, v)

\* self.__map_to_fn[code](feature_block) on an instrument of version v
map_to_fn(code, b, v) ==
    IF code \notin map_to_fn_codes THEN FeatureError("KeyError")
    ELSE IF code = NA THEN load_na_block(b)
    ELSE IF code = FM THEN load_fm_block(b)
    ELSE IF code = MA THEN load_ma_block(b)
    ELSE IF code = C64 THEN load_c64_block(b)
    ELSE IF code = GB THEN load_gb_block(b)
    ELSE IF code = SM THEN load_sm_block(b)
    ELSE IF code \in {O1, O2, O3, O4} THEN load_op_block(b)
    ELSE IF code = LD THEN load_ld_block(b)
    ELSE IF code = SN THEN load_sn_block(b, v)
    ELSE IF code = N1 THEN load_n1_block(b)
    ELSE IF code = FD THEN load_fd_block(b)
    ELSE IF code = WS THEN load_ws_block(b)
    ELSE IF code \in {SL, WL} THEN common_pointers_block(code, b)
    ELSE IF code = MP THEN load_mp_block(b)
    ELSE IF code = SU THEN load_su_block(b)
    ELSE IF code = ES THEN load_es_block(b)
    ELSE IF code = X1 THEN load_x1_block(b)
    ELSE IF code = NE THEN load_ne_block(b)
    ELSE IF code = PN THEN load_pn_block(b)
    ELSE load_s2_block(b)

\* a FurnaceInstrument as a load leaves it: st is "ok" when the load
\* returns and the exception otherwise; meta.version, meta.type and
\* self.features hold what was stored before the exception
FurnaceInstrument(st, ver, typ, features) ==
    [st |-> st, version |-> ver, type |-> typ, features |-> features]

\* feature_block = BytesIO(stream.read(len_block)), the code of the feature
\* at offset p: the bytes of the block and the offset after it
feature_sub_stream(s, p) ==
    stream_read(s, p + 4, read_short(s, p + 2).val)

\* __read_format_1_feature that passes over a block whose code is not in
\* the dispatch table, using the length of the block
RECURSIVE read_format_1_feature_skipping_unknown(_, _, _)
read_format_1_feature_skipping_unknown(s, p, v) ==
    IF stream_read(s, p, 2).bytes \in {EN, <<>>}
    THEN [st |-> "end", pos |-> stream_read(s, p, 2).pos]
    ELSE IF ~read_short(s, p + 2).ok
    THEN [st |-> "struct.error", pos |-> Len(s)]
    ELSE IF stream_read(s, p, 2).bytes \notin map_to_fn_codes
    THEN read_format_1_feature_skipping_unknown(
             s, stream_read(s, p + 4, read_short(s, p + 2).val).pos, v)
    ELSE [st |-> "feature",
          feat |-> map_to_fn(stream_read(s, p, 2).bytes,
                             stream_read(s, p + 4, read_short(s, p + 2).val).bytes,
                             v),
          pos |-> stream_read(s, p + 4, read_short(s, p + 2).val).pos]

\* __read_format_1_feature at offset p on an instrument of version v: "end"
\* for b'EN' and for the end of the stream, the exception raised, or the
\* feature and the offset after its block
read_format_1_feature(s, p, v) ==
    IF stream_read(s, p, 2).bytes \in {EN, <<>>}
    THEN [st |-> "end", pos |-> stream_read(s, p, 2).pos]
    ELSE IF ~read_short(s, p + 2).ok
    THEN [st |-> "struct.error", pos |-> Len(s)]
    ELSE [st |-> "feature",
          feat |-> map_to_fn(stream_read(s, p, 2).bytes,
                             feature_sub_stream(s, p).bytes, v),
          pos |-> feature_sub_stream(s, p).pos]

\* the while loop of __load_format_1, the features read so far in feats and
\* self.meta.version in v
RECURSIVE format_1_features(_, _, _, _)
format_1_features(s, p, feats, v) ==
    IF read_format_1_feature(s, p, v).st = "end"
    THEN [st |-> "ok", features |-> feats]
    ELSE IF read_format_1_feature(s, p, v).st # "feature"
    THEN [st |-> read_format_1_feature(s, p, v).st, features |-> feats]
    ELSE IF read_format_1_feature(s, p, v).feat.st # "ok"
    THEN [st |-> read_format_1_feature(s, p, v).feat.st, features |-> feats]
    ELSE format_1_features(s, read_format_1_feature(s, p, v).pos,
                           Append(feats, read_format_1_feature(s, p, v).feat), v)

\* the instrument with the outcome of the feature loop
with_features(ver, typ, r) ==
    FurnaceInstrument(r.st, ver, typ, r.features)

\* __load_format_1(stream), the stream at offset p, on the instrument ins
load_format_1(ins, s, p) ==
    IF ~read_short(s, p).ok
    THEN FurnaceInstrument("struct.error", ins.version, ins.type, ins.features)
    ELSE IF ~read_short(s, p + 2).ok
    THEN FurnaceInstrument("struct.error", read_short(s, p).val, ins.type,
                           ins.features)
    ELSE IF read_short(s, p + 2).val \notin InstrumentTypes
    THEN FurnaceInstrument("ValueError", read_short(s, p).val, ins.type,
                           ins.features)
    ELSE with_features(read_short(s, p).val, read_short(s, p + 2).val,
                       format_1_features(s, p + 4, <<>>, read_short(s, p).val))

\* FurnaceInstrument(): InsMeta() and no feature
new_instrument == FurnaceInstrument("new", 143, 1, <<>>)

\* the codes (_code of the feature classes) of the features that
\* __load_format_0_embed appends, in order, at instrument version v: the
\* InsFeatureAmiga of the sample map follows the one of the amiga section
\* from version 67 on, and the operator macros come last
format_0_feature_codes(v) ==
    <<NA, FM, GB, C64, SM, MA>>
    \o (IF v >= 63 THEN <<LD>> ELSE <<>>)
    \o (IF v >= 67 THEN <<SM>> ELSE <<>>)
    \o (IF v >= 73 THEN <<N1>> ELSE <<>>)
    \o (IF v >= 76 THEN <<FD>> ELSE <<>>)
    \o (IF v >= 79 THEN <<WS>> ELSE <<>>)
    \o (IF v >= 93 THEN <<MP>> ELSE <<>>)
    \o (IF v >= 104 THEN <<SU>> ELSE <<>>)
    \o (IF v >= 107 THEN <<ES>> ELSE <<>>)
    \o (IF v >= 109 THEN <<SN>> ELSE <<>>)
    \o (IF v >= 29 THEN <<O1, O2, O3, O4>> ELSE <<>>)

\* the section of the legacy block (0: the name) whose reads come last
\* before the feature at place i of codes is appended to self.features
append_section(codes, i) ==
    CASE codes[i] = NA -> 0
      [] codes[i] = FM -> 1
      [] codes[i] = GB -> 2
      [] codes[i] = C64 -> 3
      [] codes[i] = SM -> IF i = 5 THEN 4 ELSE 11
      [] codes[i] = MA -> 5
      [] codes[i] = LD -> 10
      [] codes[i] = N1 -> 12
      [] codes[i] = FD -> 14
      [] codes[i] = WS -> 16
      [] codes[i] = MP -> 19
      [] codes[i] = SU -> 20
      [] codes[i] = ES -> 23
      [] codes[i] = SN -> 24
      [] OTHER -> 25

\* a feature of a legacy instrument: InsFeatureName with the name and
\* InsFeatureMacro with its VOL, ARP, DUTY and WAVE macros; of the other
\* features the code alone is kept
format_0_feature(code, name, macros) ==
    IF code = NA THEN Feature(NA, name)
    ELSE IF code = MA THEN Feature(MA, macros)
    ELSE Feature(code, <<>>)

\* the offset that the block has to reach for the feature at place i of
\* codes to be appended: the end of its section; the ten bytes after the
\* last operator of the fm section are read with ins_data.read(10), which
\* does not raise at the end of the block
append_offset(d, v, p0, codes, i) ==
    section_end(d, v, p0, append_section(codes, i))
        - (IF append_section(codes, i) = 1 THEN 10 ELSE 0)

\* self.features when the fields up to lim are read: a feature is in the
\* list when the reads before its append end at lim or before
format_0_features(d, v, p0, lim, name, macros) ==
    [i \in 1..Cardinality({j \in 1..Len(format_0_feature_codes(v)) :
                             append_offset(d, v, p0,
                                           format_0_feature_codes(v), j)
                                 <= lim}) |->
        format_0_feature(format_0_feature_codes(v)[i], name, macros)]

\* the instrument after the name of the legacy block d is read, r the
\* outcome of the load: the enum of a section raises ValueError and a short
\* read struct.error; meta.type is the one set after the standard section
\* once that section is read
format_0_named(d, v, type, name, lim, r) ==
    FurnaceInstrument(
        IF r.st = "done" THEN "ok"
        ELSE IF section_end(d, v, name.pos, 5) <= Len(d) /\ lim < Len(d)
        THEN "ValueError" ELSE "struct.error",
        v,
        IF section_end(d, v, name.pos, 5) <= lim
        THEN type_after_standard(d, v, type, section_end(d, v, name.pos, 4))
        ELSE type,
        format_0_features(d, v, name.pos, lim, name.val, r.macros))

\* __load_format_0_embed on ins_data d, lines 653 to 1573: meta.version,
\* meta.type, the byte after them, self.features.clear(), the name
format_0_body(ins, d, r) ==
    IF ~read_short(d, 0).ok
    THEN FurnaceInstrument("struct.error", ins.version, ins.type, ins.features)
    ELSE IF ~read_byte(d, 2).ok
    THEN FurnaceInstrument("struct.error", read_short(d, 0).val, ins.type,
                           ins.features)
    ELSE IF d[3] \notin InstrumentTypes
    THEN FurnaceInstrument("ValueError", read_short(d, 0).val, ins.type,
                           ins.features)
    ELSE IF ~read_byte(d, 3).ok
    THEN FurnaceInstrument("struct.error", read_short(d, 0).val, d[3],
                           ins.features)
    ELSE IF read_str(d, 4).hang
    THEN FurnaceInstrument("hang", read_short(d, 0).val, d[3], <<>>)
    ELSE IF read_str(d, 4).bad
    THEN FurnaceInstrument("UnicodeDecodeError", read_short(d, 0).val, d[3],
                           <<>>)
    ELSE format_0_named(d, read_short(d, 0).val, d[3], read_str(d, 4),
                        read_limit(d, read_short(d, 0).val, read_str(d, 4).pos),
                        r)

\* __load_format_0_embed(stream) on the instrument ins, s the stream from
\* its cursor on: the instrument that the load leaves
format_0_instrument(ins, s) ==
    IF stream_read(s, 0, 4).bytes # EMBED_MAGIC_STR
    THEN FurnaceInstrument("RuntimeError", ins.version, ins.type, ins.features)
    ELSE IF ~read_int(s, 4).ok
    THEN FurnaceInstrument("struct.error", ins.version, ins.type, ins.features)
    ELSE format_0_body(ins, ins_data_of(s, count_at(s, 4)),
                       load_format_0_embed(s))

FILE_MAGIC_STR ==
    <<45, 70, 117, 114, 110, 97, 99, 101, 32, 105, 110, 115, 116, 114, 46, 45>>

\* the FORMAT_0_FILE branch after the magic, the cursor at p: the version,
\* a reserved short, ins_data_ptr, num_waves, num_samples, a reserved int,
\* the wavetable and sample pointers, then stream.seek(ins_data_ptr) and
\* __load_format_0_embed(stream)
load_format_0_file(ins, s, p) ==
    IF ~read_short(s, p).ok
    THEN FurnaceInstrument("struct.error", ins.version, ins.type, ins.features)
    ELSE IF \/ Len(s) < p + 16
            \/ Len(s) < p + 16 + 4 * (read_short(s, p + 8).val
                                       + read_short(s, p + 10).val)
    THEN FurnaceInstrument("struct.error", read_short(s, p).val, ins.type,
                           ins.features)
    ELSE format_0_instrument(
             FurnaceInstrument(ins.st, read_short(s, p).val, ins.type,
                               ins.features),
             SubSeq(s, Min(size_of(read_int(s, p + 4).val), Len(s)) + 1,
                    Len(s)))

\* load_from_stream(stream, import_as) on the instrument ins, the stream at
\* offset p
fins_load_from_stream(ins, s, p, import_as) ==
    IF import_as = "FORMAT_0_FILE"
    THEN IF stream_read(s, p, 16).bytes # FILE_MAGIC_STR
         THEN FurnaceInstrument("ValueError", ins.version, ins.type, ins.features)
         ELSE load_format_0_file(ins, s, p + 16)
    ELSE IF import_as = "FORMAT_0_EMBED"
    THEN format_0_instrument(ins, SubSeq(s, p + 1, Len(s)))
    ELSE IF import_as = "FORMAT_1_FILE"
    THEN IF stream_read(s, p, 4).bytes # DEV127_FILE_MAGIC_STR
         THEN FurnaceInstrument("ValueError", ins.version, ins.type, ins.features)
         ELSE load_format_1(ins, s, p + 4)
    ELSE IF import_as = "FORMAT_1_EMBED"
    THEN IF stream_read(s, p, 4).bytes # DEV127_EMBED_MAGIC_STR
         THEN FurnaceInstrument("ValueError", ins.version, ins.type, ins.features)
         ELSE IF ~read_int(s, p + 4).ok
         THEN FurnaceInstrument("struct.error", ins.version, ins.type,
                                ins.features)
         ELSE load_format_1(ins, stream_read(s, p + 8,
                                         size_of(read_int(s, p + 4).val)).bytes, 0)
    ELSE FurnaceInstrument("ValueError", ins.version, ins.type, ins.features)

\* --- the featural encoding (spec.md 4.3, 6): the layout the loaders read ---

\* the places of the values in the data of a macro
value_places(data) == {i \in 1..Len(data) : is_int(data[i])}

\* the k-th smallest member of a set of numbers
nth_of(S, k) == CHOOSE i \in S : Cardinality({j \in S : j < i}) = k - 1

\* the values of a macro, without the markers
macro_values(data) ==
    [k \in 1..Cardinality(value_places(data)) |->
        data[nth_of(value_places(data), k)]]

\* the two readings of the position of a marker
MarkerRules == {"values", "index"}

\* the position of a marker, 0xff when the macro has no such marker: the
\* number of values before it (rule "values"), or its index in the data
\* list, markers counted (rule "index")
marker_position(data, item, rule) ==
    IF ~\E i \in 1..Len(data) : data[i] = item THEN 255
    ELSE IF rule = "index"
    THEN (CHOOSE i \in 1..Len(data) : data[i] = item) - 1
    ELSE Cardinality({j \in value_places(data) :
                         j < (CHOOSE i \in 1..Len(data) : data[i] = item)})

\* the smallest MacroSize that holds every value
word_size_of(vals) ==
    IF \A i \in 1..Len(vals) : vals[i][2] = 0 /\ vals[i][3] <= 255 THEN 0
    ELSE IF \A i \in 1..Len(vals) :
                \/ vals[i][2] = 0 /\ vals[i][3] <= 127
                \/ vals[i][2] = -1 /\ vals[i][3] >= 65408
    THEN 1
    ELSE IF \A i \in 1..Len(vals) :
                \/ vals[i][2] = 0 /\ vals[i][3] <= 32767
                \/ vals[i][2] = -1 /\ vals[i][3] >= 32768
    THEN 2
    ELSE 3

\* the first nb bytes of a value, little-endian two's complement
value_bytes(x, nb) ==
    SubSeq(<<x[3] % 256, x[3] \div 256,
             (x[2] % 65536) % 256, (x[2] % 65536) \div 256>>, 1, nb)

encode_macro_values(vals, ws) ==
    Concat([i \in 1..Len(vals) |-> value_bytes(vals[i], MacroSize_num_bytes(ws))])

\* one macro: code, length, loop, release, mode, flags, delay, speed, values
encode_macro_with(m, vals, ws, rule) ==
    <<m.kind, Len(vals), marker_position(m.data, MacroItem_LOOP, rule),
      marker_position(m.data, MacroItem_RELEASE, rule), m.mode,
      ws * 64 + m.type * 2 + (IF m.open THEN 1 ELSE 0), m.delay, m.speed>>
    \o encode_macro_values(vals, ws)

encode_macro_of(m, vals, rule) ==
    encode_macro_with(m, vals, word_size_of(vals), rule)

encode_macro(m, rule) == encode_macro_of(m, macro_values(m.data), rule)

\* the body of a macro feature: header size, the macros, the stop code
encode_macros(macros, rule) ==
    <<8, 0>> \o Concat([i \in 1..Len(macros) |-> encode_macro(macros[i], rule)])
             \o <<MacroCode_STOP>>

\* the keys of a pointer list in ascending order
sorted_keys(pointers) ==
    [k \in 1..Cardinality(pointers) |->
        nth_of({e[1] : e \in pointers}, k)]

pointer_of(pointers, key) == (CHOOSE e \in pointers : e[1] = key)[2]

\* the body of a pointer list: count, the keys, then the pointers
encode_pointers_with(pointers, keys) ==
    <<Len(keys)>> \o keys
        \o Concat([k \in 1..Len(keys) |-> U32(pointer_of(pointers, keys[k]))])

encode_pointers(pointers) == encode_pointers_with(pointers, sorted_keys(pointers))

BoolByte(x) == IF x THEN 1 ELSE 0

\* the body of a feature block
feature_body(f, rule) ==
    IF f.code = NA THEN utf8_encode(f.val) \o <<0>>
    ELSE IF f.code \in {MA, O1, O2, O3, O4} THEN encode_macros(f.val, rule)
    ELSE IF f.code = LD
    THEN <<BoolByte(f.val[1])>> \o U16(f.val[2]) \o U16(f.val[3]) \o U16(f.val[4])
    ELSE IF f.code = N1 THEN U32(f.val[1]) \o <<f.val[2], f.val[3], f.val[4]>>
    ELSE IF f.code \in {SL, WL} THEN encode_pointers(f.val)
    ELSE IF f.code = SU THEN <<BoolByte(f.val[1])>>
    ELSE IF f.code = X1 THEN U32(f.val[1])
    ELSE IF f.code = S2 THEN <<f.val[1] + 16 * f.val[2] + 64 * f.val[3]>>
    ELSE f.val

\* a feature block: code, length, body
feature_block(code, body) == code \o U16(Len(body)) \o body

\* the instrument data: version, type, the feature blocks, b'EN'
encode_ins_data(ins, rule) ==
    U16(ins.version) \o U16(ins.type)
        \o Concat([i \in 1..Len(ins.features) |->
                      feature_block(ins.features[i].code,
                                    feature_body(ins.features[i], rule))])
        \o EN

\* an embedded featural instrument: b'INS2', the length, the data
ins2_block(data) == DEV127_EMBED_MAGIC_STR \o S32(Len(data)) \o data

\* a featural instrument file: b'FINS', the data
fins_file(data) == DEV127_FILE_MAGIC_STR \o data

encode_format_1(ins, rule) == ins2_block(encode_ins_data(ins, rule))

\* --- FinsSpec: load, encode, load again ---

MaxFeatures == 2

\* macro feature bodies: VOL without markers; ARP of three INT8 values with
\* the loop at 0 and the release at 2; DUTY with the loop at 1 and the
\* release at 0
MacroBodies ==
    { <<8, 0, 0, 2, 255, 255, 0, 0, 0, 1, 5, 6, 255>>,
      <<8, 0, 1, 3, 0, 2, 0, 65, 0, 1, 5, 255, 7, 255>>,
      <<8, 0, 2, 2, 1, 0, 1, 128, 2, 3, 44, 1, 7, 0, 255>> }

\* the feature blocks the streams are made of: names (one without its
\* terminator, one with U+00E9, one that is not UTF-8), macros, an operator macro block, pointer lists (one with a
\* key stored twice), fixed-layout blocks and a code that is not in the
\* dispatch table
SourceBlocks ==
    { feature_block(NA, <<97, 0>>), feature_block(NA, <<98, 99, 0>>),
      feature_block(NA, <<97>>), feature_block(NA, <<195, 169, 0>>),
      feature_block(NA, <<255, 0>>),
      feature_block(O1, <<8, 0, 0, 1, 255, 255, 0, 0, 0, 1, 5, 255>>),
      feature_block(SL, <<3, 2, 0, 2>> \o S32(16) \o S32(300) \o S32(7)),
      feature_block(WL, <<1, 4>> \o S32(70000)),
      feature_block(LD, <<1, 32, 5, 80, 5, 192, 1>>),
      feature_block(N1, <<1, 0, 0, 0, 2, 32, 3>>),
      feature_block(MP, <<15, 15, 0, 0, 15, 15, 0, 1, 2>>),
      feature_block(SU, <<1>>), feature_block(X1, <<5, 0, 0, 128>>),
      feature_block(PN, <<3>>), feature_block(S2, <<155>>),
      feature_block(<<90, 90>>, <<1, 0>>) }
    \cup { feature_block(MA, b) : b \in MacroBodies }

\* the instrument data of a stream: version 200, type 1, the blocks and
\* b'EN' or the end of the stream
SourceData ==
    { U16(200) \o U16(1) \o Concat(blocks) \o en :
        blocks \in SeqsUpTo(SourceBlocks, MaxFeatures), en \in {EN, <<>>} }

FinsInit ==
    /\ OthersIdle("fins")
    /\ fins_form \in {"FORMAT_1_FILE", "FORMAT_1_EMBED"}
    /\ fins_rule \in MarkerRules
    /\ \E data \in SourceData :
           fins_src = IF fins_form = "FORMAT_1_FILE" THEN fins_file(data)
                      ELSE ins2_block(data)
    /\ fins_first = [st |-> "idle"]
    /\ fins_bytes = <<>>
    /\ fins_second = [st |-> "idle"]
    /\ fpc = "start"

\* FurnaceInstrument().load_from_stream(fins_src, fins_form)
FinsLoad ==
    /\ fpc = "start"
    /\ fins_first' = fins_load_from_stream(new_instrument, fins_src, 0, fins_form)
    /\ fpc' = "first"
    /\ UNCHANGED <<fins_src, fins_form, fins_rule, fins_bytes, fins_second>>
    /\ UNCHANGED nonFinsVars

\* encode(instrument), for an instrument that was decoded
FinsEncode ==
    /\ fpc = "first"
    /\ fins_first.st = "ok"
    /\ fins_bytes' = encode_format_1(fins_first, fins_rule)
    /\ fpc' = "encoded"
    /\ UNCHANGED <<fins_src, fins_form, fins_rule, fins_first, fins_second>>
    /\ UNCHANGED nonFinsVars

\* FurnaceInstrument().load_from_stream(fins_bytes, FORMAT_1_EMBED)
FinsReload ==
    /\ fpc = "encoded"
    /\ fins_second' =
           fins_load_from_stream(new_instrument, fins_bytes, 0, "FORMAT_1_EMBED")
    /\ fpc' = "done"
    /\ UNCHANGED <<fins_src, fins_form, fins_rule, fins_first, fins_bytes>>
    /\ UNCHANGED nonFinsVars

FinsNext == FinsLoad \/ FinsEncode \/ FinsReload

FinsSpec == FinsInit /\ [][FinsNext]_vars

\* C11: an instrument decoded from a featural stream, encoded to the
\* featural layout and decoded again has a feature list equal to the
\* original one.
C11_DecodeEncodeIsIdentity ==
    fpc = "done" =>
        fins_second.st = "ok" /\ fins_second.features = fins_first.features

\* a macro with the marker a before the marker b
marker_before(m, a, b) ==
    \E i \in 1..Len(m.data) : \E j \in (i + 1)..Len(m.data) :
        m.data[i] = a /\ m.data[j] = b

has_marker_before(ins, a, b) ==
    \E f \in 1..Len(ins.features) :
        /\ ins.features[f].code = MA
        /\ \E k \in 1..Len(ins.features[f].val) :
               marker_before(ins.features[f].val[k], a, b)

\* the feature list comes back as it was when no macro has both markers in
\* the order that the rule of the encoding gets wrong: the loop before the
\* release for the positions among the values, the release before the loop
\* for the indices
RoundTripWithoutBothMarkers ==
    (/\ fpc = "done"
     /\ fins_rule = "values" =>
            ~has_marker_before(fins_first, MacroItem_LOOP, MacroItem_RELEASE)
     /\ fins_rule = "index" =>
            ~has_marker_before(fins_first, MacroItem_RELEASE, MacroItem_LOOP))
        => fins_second.st = "ok" /\ fins_second.features = fins_first.features

\* the round trip changes a feature list under the rule "values"
ValuesRuleFails ==
    /\ fpc = "done" /\ fins_rule = "values"
    /\ fins_second.features # fins_first.features

\* the round trip changes a feature list under the rule "index"
IndexRuleFails ==
    /\ fpc = "done" /\ fins_rule = "index"
    /\ fins_second.features # fins_first.features

\* an instrument with a name and a pointer list that came back equal
RoundTripReached ==
    /\ fpc = "done" /\ Len(fins_first.features) = 2
    /\ fins_first.features[1].code = NA /\ fins_first.features[2].code = SL
    /\ fins_second.features = fins_first.features

\* ------------------------------------------------------------------------
\* RdSpec: the primitive readers, read_str step by step (_util.py)
\* ------------------------------------------------------------------------

\* known_sizes of the format of each fixed-width reader
known_size(op) ==
    IF op = "read_byte" THEN 1 ELSE IF op = "read_short" THEN 2 ELSE 4

\* read_float(file): little-endian IEEE 754 single, as sign, exponent and
\* fraction
read_float(s, p) ==
    IF p + 4 <= Len(s)
    THEN [ok |-> TRUE,
          val |-> <<s[p + 4] \div 128,
                    (s[p + 4] % 128) * 2 + s[p + 3] \div 128,
                    (s[p + 3] % 128) * 65536 + s[p + 2] * 256 + s[p + 1]>>,
          pos |-> p + 4]
    ELSE [ok |-> FALSE, val |-> <<>>, pos |-> Len(s)]

\* the fixed-width reader op at offset p
read_fixed(op, s, p) ==
    IF op = "read_byte" THEN read_byte(s, p)
    ELSE IF op = "read_short" THEN read_short(s, p)
    ELSE IF op = "read_int" THEN read_int(s, p)
    ELSE read_float(s, p)

MaxStream == 3

\* the loop of read_str is followed for at most MaxIter rounds
MaxIter == 6

\* the bytes of the streams: 195 169 is the UTF-8 form of U+00E9
RdBytes == {0, 1, 65, 169, 195}

RdOps == {"read_byte", "read_short", "read_int", "read_float", "read_str"}

RdInit ==
    /\ OthersIdle("rd")
    /\ rd_stream \in SeqsUpTo(RdBytes, MaxStream)
    /\ rd_op \in RdOps
    /\ rd_start \in 0..Len(rd_stream)
    /\ rd_pos = rd_start
    /\ rd_buffer = <<>> /\ rd_char = <<>> /\ rd_iter = 0 /\ rd_result = <<>>
    /\ rdpc = "call"

\* read_byte, read_short, read_int, read_float: file.read(n) and
\* struct.unpack, which raises struct.error on fewer than n bytes
RdFixed ==
    /\ rdpc = "call" /\ rd_op # "read_str"
    /\ rd_pos' = read_fixed(rd_op, rd_stream, rd_pos).pos
    /\ IF read_fixed(rd_op, rd_stream, rd_pos).ok
       THEN rd_result' = <<read_fixed(rd_op, rd_stream, rd_pos).val>>
            /\ rdpc' = "done"
       ELSE rd_result' = <<>> /\ rdpc' = "error"
    /\ UNCHANGED <<rd_stream, rd_op, rd_start, rd_buffer, rd_char, rd_iter>>
    /\ UNCHANGED nonRdVars

\* read_str: buffer = bytearray(); char = file.read(1)
RdStrCall ==
    /\ rdpc = "call" /\ rd_op = "read_str"
    /\ rd_buffer' = <<>>
    /\ rd_char' = stream_read(rd_stream, rd_pos, 1).bytes
    /\ rd_pos' = stream_read(rd_stream, rd_pos, 1).pos
    /\ rdpc' = "loop"
    /\ UNCHANGED <<rd_stream, rd_op, rd_start, rd_iter, rd_result>>
    /\ UNCHANGED nonRdVars

\* while char != b'\x00': buffer += char; char = file.read(1)
RdStrLoop ==
    /\ rdpc = "loop" /\ rd_char # <<0>>
    /\ rd_iter < MaxIter
    /\ rd_buffer' = rd_buffer \o rd_char
    /\ rd_char' = stream_read(rd_stream, rd_pos, 1).bytes
    /\ rd_pos' = stream_read(rd_stream, rd_pos, 1).pos
    /\ rd_iter' = rd_iter + 1
    /\ UNCHANGED <<rd_stream, rd_op, rd_start, rd_result, rdpc>>
    /\ UNCHANGED nonRdVars

\* return buffer.decode('utf-8'), which raises UnicodeDecodeError on bytes
\* that are not UTF-8
RdStrReturn ==
    /\ rdpc = "loop" /\ rd_char = <<0>>
    /\ IF utf8_decode(rd_buffer).ok
       THEN rd_result' = <<utf8_decode(rd_buffer).val>> /\ rdpc' = "done"
       ELSE rd_result' = <<>> /\ rdpc' = "error"
    /\ UNCHANGED <<rd_stream, rd_op, rd_start, rd_pos, rd_buffer, rd_char, rd_iter>>
    /\ UNCHANGED nonRdVars

RdNext == RdFixed \/ RdStrCall \/ RdStrLoop \/ RdStrReturn

RdSpec == RdInit /\ [][RdNext]_vars

\* the stream ends before the value that the reader is to read
ends_early(op, s, p) ==
    IF op = "read_str" THEN \A i \in (p + 1)..Len(s) : s[i] # 0
    ELSE p + known_size(op) > Len(s)

\* C12: every primitive read ends after finitely many steps: a read that
\* has returned was given its whole value, and a read whose stream ends
\* early has failed once the stream has been read to its end (at most one
\* round of the loop of read_str for each byte that is left, and one more
\* to see the end).
C12_ReadsTerminate ==
    /\ rdpc = "done" => ~ends_early(rd_op, rd_stream, rd_start)
    /\ rd_iter <= Len(rd_stream) - rd_start + 1

\* the fixed-width readers end in one step, with struct.error when the
\* stream ends early
FixedReadsTerminate ==
    (rd_op # "read_str" /\ rdpc # "call") =>
        /\ rdpc = IF ends_early(rd_op, rd_stream, rd_start) THEN "error" ELSE "done"
        /\ rd_iter = 0

\* read_str returns what the operator read_str gives, and runs on when the
\* operator reports that it never returns
StrStepsAgree ==
    /\ (rd_op = "read_str" /\ rdpc = "done") =>
           /\ read_str(rd_stream, rd_start).ok
           /\ rd_result = <<read_str(rd_stream, rd_start).val>>
           /\ rd_pos = read_str(rd_stream, rd_start).pos
    /\ (rd_op = "read_str" /\ rdpc = "error") =>
           /\ read_str(rd_stream, rd_start).bad
           /\ rd_pos = read_str(rd_stream, rd_start).pos
    /\ (rd_op = "read_str" /\ rd_iter = MaxIter) =>
           read_str(rd_stream, rd_start).hang

\* read_str still in its loop after MaxIter rounds on a stream of one byte
StrLoopsOn ==
    /\ rd_op = "read_str" /\ rdpc = "loop" /\ rd_iter = MaxIter
    /\ rd_stream = <<65>> /\ rd_char = <<>>

\* the two bytes c3 a9 before the zero byte are returned as the one character
\* U+00E9
StrDecodesTwoBytes ==
    /\ rd_op = "read_str" /\ rdpc = "done"
    /\ rd_stream = <<195, 169, 0>> /\ rd_result = <<<<233>>>>

\* a continuation byte alone before the zero byte raises UnicodeDecodeError
\* at the return
StrDecodeRaises ==
    /\ rd_op = "read_str" /\ rdpc = "error"
    /\ rd_stream = <<169, 0>> /\ rd_buffer = <<169>> /\ rd_pos = 2

\* ------------------------------------------------------------------------
\* The module (src/chipchune/furnace/module.py, data_types.py, sample.py)
\* ------------------------------------------------------------------------

MAGIC_STR == <<45, 70, 117, 114, 110, 97, 99, 101, 32, 109, 111, 100, 117, 108, 101, 45>>

MAX_CHIPS == 32

\* enums.ChipType: the number of channels of the member with id i, 0 where
\* no member has that id
ChipType_channels ==
    << 17, 10, 4, 4, 6, 5, 3, 13, 13, 0, 0, 0, 0, 0, 0, 0, 0, 0, 0, 0, 0, 0,
      0, 0, 0, 0, 0, 0, 0, 0, 0, 0, 0, 0, 0, 0, 0, 0, 0, 0, 0, 0, 0, 0, 0, 0,
      0, 0, 0, 0, 0, 0, 0, 0, 0, 0, 0, 0, 0, 0, 0, 0, 0, 0, 0, 13, 13, 0, 0,
      11, 3, 0, 16, 0, 0, 0, 0, 0, 0, 0, 0, 0, 0, 0, 0, 0, 0, 0, 0, 0, 0, 0,
      0, 0, 0, 0, 0, 0, 0, 0, 0, 0, 0, 0, 0, 0, 0, 0, 0, 0, 0, 0, 0, 0, 0, 0,
      0, 0, 0, 0, 0, 0, 0, 0, 0, 0, 0, 3, 4, 8, 6, 2, 4, 1, 8, 3, 9, 1, 3, 8,
      6, 16, 9, 9, 18, 24, 1, 4, 8, 4, 6, 8, 1, 3, 16, 6, 6, 16, 6, 9, 5, 11,
      11, 20, 14, 17, 11, 4, 5, 4, 1, 17, 2, 42, 44, 16, 32, 10, 12, 5, 8, 9,
      19, 8, 3, 8, 8, 8, 11, 7, 4, 1, 10, 18, 10, 20, 20, 2, 4, 3, 16, 5, 3,
      4, 2, 24, 16, 32, 18, 32, 0, 4, 6, 16, 2, 16, 4, 0, 0, 0, 0, 19, 0, 19,
      0, 0, 0, 0, 0, 0, 0, 0, 0, 0, 0, 0, 0, 0, 0, 3, 5, 0, 0, 0, 0, 0, 0, 0,
      0, 0, 0, 1, 1, 1, 1 >>

\* enums.ChipType: the name of the member with id i
ChipType_names ==
    << "YMU759", "GENESIS", "SMS", "GB", "PCE", "NES", "C64_8580",
      "SEGA_ARCADE", "NEO_GEO_CD", "", "", "", "", "", "", "", "", "", "", "",
      "", "", "", "", "", "", "", "", "", "", "", "", "", "", "", "", "", "",
      "", "", "", "", "", "", "", "", "", "", "", "", "", "", "", "", "", "",
      "", "", "", "", "", "", "", "", "", "GENESIS_EX", "SMS_JP", "", "",
      "NES_VRC7", "C64_6581", "", "NEO_GEO_CD_EX", "", "", "", "", "", "", "",
      "", "", "", "", "", "", "", "", "", "", "", "", "", "", "", "", "", "",
      "", "", "", "", "", "", "", "", "", "", "", "", "", "", "", "", "", "",
      "", "", "", "", "", "", "", "", "", "", "", "AY38910", "AMIGA",
      "YM2151", "YM2612", "TIA", "VIC20", "PET", "SNES", "VRC6", "OPLL",
      "FDS", "MMC5", "N163", "OPN", "PC98", "OPL", "OPL2", "OPL3", "MULTIPCM",
      "PC_SPEAKER", "POKEY", "RF5C68", "WONDERSWAN", "SAA1099", "OPZ",
      "POKEMON_MINI", "AY8930", "SEGAPCM", "VIRTUAL_BOY", "VRC7", "YM2610B",
      "ZX_BEEPER", "YM2612_EX", "SCC", "OPL_DRUMS", "OPL2_DRUMS",
      "OPL3_DRUMS", "NEO_GEO", "NEO_GEO_EX", "OPLL_DRUMS", "LYNX",
      "SEGAPCM_DMF", "MSM6295", "MSM6258", "COMMANDER_X16",
      "BUBBLE_SYSTEM_WSG", "OPL4", "OPL4_DRUMS", "SETA", "ES5506", "Y8950",
      "Y8950_DRUMS", "SCC_PLUS", "TSU", "YM2203_EX", "YM2608_EX", "YMZ280B",
      "NAMCO", "N15XX", "CUS30", "MSM5232", "YM2612_PLUS_EX", "YM2612_PLUS",
      "T6W28", "PCM_DAC", "YM2612_CSM", "NEO_GEO_CSM", "YM2203_CSM",
      "YM2608_CSM", "YM2610B_CSM", "K007232", "GA20", "SM8521", "M114S",
      "ZX_BEEPER_QUADTONE", "PV_1000", "K053260", "TED", "NAMCO_C140",
      "NAMCO_C219", "NAMCO_C352", "ESFM", "ES5503", "", "POWERNOISE", "DAVE",
      "NDS", "GBA", "GBA_MINMOD", "BIFURCATOR", "", "", "", "", "YM2610B_EX",
      "", "QSOUND", "", "", "", "", "", "", "", "", "", "", "", "", "", "",
      "", "SID2", "FIVEE01", "", "", "", "", "", "", "", "", "", "", "PONG",
      "DUMMY", "RESERVED_1", "RESERVED_2" >>

\* ChipType(chip_id) raises ValueError
no_chip_type(chip_id) == chip_id = 0 \/ ChipType_names[chip_id] = ""

\* a float of the stream or of the source, as sign, exponent and fraction of
\* its IEEE 754 single
Float(sgn, expo, frac) == <<sgn, expo, frac>>

\* read_byte(file, True): the byte as a signed integer
signed_byte(b) == IF b >= 128 THEN b - 256 ELSE b

\* x / d for an integer x
Ratio(x, d) == <<"ratio", x, d>>

\* data_types.ChipInfo
ChipInfo(type, flags, panning, surround, volume) ==
    [type |-> type, flags |-> flags, panning |-> panning,
     surround |-> surround, volume |-> volume]

\* ChipInfo(ChipType(chip_id))
new_chip(chip_id) ==
    ChipInfo(chip_id, {}, Ratio(0, 128), Float(0, 0, 0), Ratio(64, 64))

\* data_types.ChannelDisplayInfo
ChannelDisplayInfo(name, abbreviation, collapsed, shown) ==
    [name |-> name, abbreviation |-> abbreviation, collapsed |-> collapsed,
     shown |-> shown]

\* data_types.TimingInfo()
TimingInfo ==
    [arp_speed |-> 1, clock_speed |-> Float(0, 132, 7340032),
     highlight |-> <<4, 16>>, speed |-> <<0, 0>>, timebase |-> 1,
     virtual_tempo |-> <<150, 150>>]

\* ChipType.YM2612.channels + ChipType.SMS.channels
default_channels == ChipType_channels[131] + ChipType_channels[3]

\* data_types.SubSong(); order is a dict from channel to list
SubSong ==
    [name |-> <<>>, comment |-> <<>>, speed_pattern |-> <<6>>,
     grooves |-> <<>>, timing |-> TimingInfo, pattern_length |-> 64,
     order |-> [c \in 0..9 |-> <<0>>],
     effect_columns |-> [i \in 1..default_channels |-> 1],
     channel_display |->
         [i \in 1..default_channels |-> ChannelDisplayInfo(<<>>, <<>>, FALSE, TRUE)]]

\* new_subsong = SubSong(); order.clear(); speed_pattern.clear()
cleared_subsong(sub) ==
    [sub EXCEPT !.order = [c \in {} |-> <<>>], !.speed_pattern = <<>>]

\* data_types.ModuleMeta(); sys_name is 'Sega Genesis/Mega Drive'
ModuleMeta ==
    [name |-> <<>>, name_jp |-> <<>>, author |-> <<>>, author_jp |-> <<>>,
     album |-> <<>>, album_jp |-> <<>>,
     sys_name |-> <<83, 101, 103, 97, 32, 71, 101, 110, 101, 115, 105, 115,
                    47, 77, 101, 103, 97, 32, 68, 114, 105, 118, 101>>,
     sys_name_jp |-> <<>>, comment |-> <<>>, version |-> 0,
     tuning |-> Float(0, 135, 6029312)]

\* FurnaceModule(): the object after __init__ without a file.  chips is
\* chips.list; the pointer tables are the private attributes __read_info
\* sets.
FurnaceModule ==
    [meta |-> ModuleMeta, chips |-> <<>>, master_volume |-> Float(0, 128, 0),
     compat_flags |-> ModuleCompatFlags, subsongs |-> <<SubSong>>,
     patchbay |-> <<>>, instruments |-> <<>>, patterns |-> <<>>,
     wavetables |-> <<>>, samples |-> <<>>,
     song_info_ptr |-> IntVal(0), chip_flag_ptr |-> <<>>, instrument_ptr |-> <<>>,
     wavetable_ptr |-> <<>>, sample_ptr |-> <<>>, pattern_ptr |-> <<>>,
     subsong_ptr |-> <<>>]

RECURSIVE sum_channels(_, _)
sum_channels(chips, k) ==
    IF k = 0 THEN 0
    ELSE sum_channels(chips, k - 1) + ChipType_channels[chips[k].type]

\* FurnaceModule.get_num_channels()
get_num_channels(m) == sum_channels(m.chips, Len(m.chips))

\* the patterns of the module with the key (channel, index, subsong), in
\* list order
patterns_with(m, channel, index, subsong) ==
    SelectSeq(m.patterns,
              LAMBDA x : x.channel = channel /\ x.index = index
                         /\ x.subsong = subsong)

\* FurnaceModule.get_pattern(channel, index, subsong): the first pattern
\* with the key, <<>> for None
get_pattern(m, channel, index, subsong) ==
    IF patterns_with(m, channel, index, subsong) = <<>> THEN <<>>
    ELSE <<Head(patterns_with(m, channel, index, subsong))>>

\* --- __read_info ---

\* where a read has got to: st is "ok" or what was raised ("hang" when
\* read_str never returns), m the module as the reads so far have left it
\* and p the offset of info_blk
Step(st, m, p) == [st |-> st, m |-> m, p |-> p]

\* stream.seek(i) for a pointer i read by read_int: an offset past the end
\* of the stream reads as its end
seek(s, i) == Min(size_of(i), Len(s))

\* the number of bytes of blk from offset p on
avail(blk, p) == IF Len(blk) > p THEN Len(blk) - p ELSE 0

\* read_int as a pair of 16-bit halves, high half first
flag_word(blk, p) ==
    <<byte_at(blk, p + 2) + 256 * byte_at(blk, p + 3),
      byte_at(blk, p) + 256 * byte_at(blk, p + 1)>>

\* n bytes from p on, each read by read_byte
bytes_at(blk, p, n) == [i \in 1..n |-> blk[p + i]]

\* n values from p on, each read by read_int
ints_at(blk, p, n) == [i \in 1..n |-> read_int(blk, p + 4 * (i - 1)).val]

\* the timing fields of the first subsong, 14 bytes from p on; a field is
\* assigned when the bytes up to its end are there
info_timing(sub, blk, p) ==
    [sub EXCEPT
        !.timing =
            [timebase |-> IF avail(blk, p) >= 1 THEN blk[p + 1] + 1
                          ELSE sub.timing.timebase,
             speed |-> IF avail(blk, p) >= 3 THEN <<blk[p + 2], blk[p + 3]>>
                       ELSE sub.timing.speed,
             arp_speed |-> IF avail(blk, p) >= 4 THEN blk[p + 4]
                           ELSE sub.timing.arp_speed,
             clock_speed |-> IF avail(blk, p) >= 8 THEN read_float(blk, p + 4).val
                             ELSE sub.timing.clock_speed,
             highlight |-> IF avail(blk, p) >= 14 THEN <<blk[p + 13], blk[p + 14]>>
                           ELSE sub.timing.highlight,
             virtual_tempo |-> sub.timing.virtual_tempo],
        !.pattern_length = IF avail(blk, p) >= 10 THEN read_short(blk, p + 8).val
                           ELSE sub.pattern_length]

\* the chip ids before the first zero of info_blk.read(MAX_CHIPS)
listed_chips(ids) ==
    IF \A i \in 1..Len(ids) : ids[i] # 0 THEN ids
    ELSE SubSeq(ids, 1, (CHOOSE i \in 1..Len(ids) :
                            ids[i] = 0 /\ \A j \in 1..(i - 1) : ids[j] # 0) - 1)

\* the first listed id that is no ChipType, or 0
first_bad_chip(ids) ==
    IF \A i \in 1..Len(ids) : ~no_chip_type(ids[i]) THEN 0
    ELSE CHOOSE i \in 1..Len(ids) :
            no_chip_type(ids[i]) /\ \A j \in 1..(i - 1) : ~no_chip_type(ids[j])

\* the chips appended by the chip loop
chips_appended(ids) ==
    [i \in 1..(IF first_bad_chip(ids) = 0 THEN Len(ids)
               ELSE first_bad_chip(ids) - 1) |-> new_chip(ids[i])]

\* the volume loop, the bytes from p on: chips beyond those of the list are
\* read and dropped
chip_volumes(chips, blk, p) ==
    [i \in 1..Len(chips) |->
        IF i <= avail(blk, p) /\ i <= MAX_CHIPS
        THEN [chips[i] EXCEPT !.volume = Ratio(signed_byte(blk[p + i]), 64)]
        ELSE chips[i]]

\* the panning loop
chip_pannings(chips, blk, p) ==
    [i \in 1..Len(chips) |->
        IF i <= avail(blk, p) /\ i <= MAX_CHIPS
        THEN [chips[i] EXCEPT !.panning = Ratio(signed_byte(blk[p + i]), 128)]
        ELSE chips[i]]

\* the flag loop of a version below 119
chip_old_flags(chips, blk, p) ==
    [i \in 1..Len(chips) |->
        IF 4 * i <= avail(blk, p) /\ i <= MAX_CHIPS
        THEN [chips[i] EXCEPT !.flags =
                convert_old_chip_flags(ChipType_names[chips[i].type],
                                       flag_word(blk, p + 4 * (i - 1)))]
        ELSE chips[i]]

\* the chip list, the volumes, the pannings and the flags or flag pointers:
\* the chip ids are at p, and pv is the offset after them
info_chips_from(m, v, blk, pv, ids) ==
    IF first_bad_chip(ids) # 0
    THEN Step("ValueError", [m EXCEPT !.chips = chips_appended(ids)], pv)
    ELSE IF avail(blk, pv) < MAX_CHIPS
    THEN Step("struct.error",
              [m EXCEPT !.chips = chip_volumes(chips_appended(ids), blk, pv)],
              Len(blk))
    ELSE IF avail(blk, pv) < 2 * MAX_CHIPS
    THEN Step("struct.error",
              [m EXCEPT !.chips =
                  chip_pannings(chip_volumes(chips_appended(ids), blk, pv),
                                blk, pv + MAX_CHIPS)],
              Len(blk))
    ELSE IF v >= 119
    THEN IF avail(blk, pv) < 6 * MAX_CHIPS
         THEN Step("struct.error",
                   [m EXCEPT !.chips =
                       chip_pannings(chip_volumes(chips_appended(ids), blk, pv),
                                     blk, pv + MAX_CHIPS)],
                   Len(blk))
         ELSE Step("ok",
                   [m EXCEPT !.chips =
                       chip_pannings(chip_volumes(chips_appended(ids), blk, pv),
                                     blk, pv + MAX_CHIPS),
                             !.chip_flag_ptr =
                                 ints_at(blk, pv + 2 * MAX_CHIPS, MAX_CHIPS)],
                   pv + 6 * MAX_CHIPS)
    ELSE Step(IF avail(blk, pv) < 6 * MAX_CHIPS THEN "struct.error" ELSE "ok",
              [m EXCEPT !.chips =
                  chip_old_flags(
                      chip_pannings(chip_volumes(chips_appended(ids), blk, pv),
                                    blk, pv + MAX_CHIPS),
                      blk, pv + 2 * MAX_CHIPS)],
              Min(pv + 6 * MAX_CHIPS, Len(blk)))

info_chips(m, v, blk, p) ==
    info_chips_from(m, v, blk, stream_read(blk, p, MAX_CHIPS).pos,
                    listed_chips(stream_read(blk, p, MAX_CHIPS).bytes))

\* __read_info from the timing of the first subsong to the chip flags, the
\* 248 bytes from p on; the counts num_insts .. num_patterns are read again
\* where they are used
info_fixed(m, v, blk, p) ==
    IF avail(blk, p) < 24
    THEN Step("struct.error",
              [m EXCEPT !.subsongs[1] = info_timing(m.subsongs[1], blk, p)],
              Len(blk))
    ELSE info_chips([m EXCEPT !.subsongs[1] = info_timing(m.subsongs[1], blk, p)],
                    v, blk, p + 24)

\* self.meta.<f> = read_str(info_blk)
meta_str(r, blk, f) ==
    IF r.st # "ok" THEN r
    ELSE IF read_str(blk, r.p).hang THEN Step("hang", r.m, Len(blk))
    ELSE IF read_str(blk, r.p).bad
    THEN Step("UnicodeDecodeError", r.m, read_str(blk, r.p).pos)
    ELSE Step("ok", [r.m EXCEPT !.meta[f] = read_str(blk, r.p).val],
              read_str(blk, r.p).pos)

\* self.subsongs[0].<f> = read_str(info_blk)
subsong_str(r, blk, f) ==
    IF r.st # "ok" THEN r
    ELSE IF read_str(blk, r.p).hang THEN Step("hang", r.m, Len(blk))
    ELSE IF read_str(blk, r.p).bad
    THEN Step("UnicodeDecodeError", r.m, read_str(blk, r.p).pos)
    ELSE Step("ok", [r.m EXCEPT !.subsongs[1][f] = read_str(blk, r.p).val],
              read_str(blk, r.p).pos)

\* self.meta.tuning = read_float(info_blk)
info_tuning(r, blk) ==
    IF r.st # "ok" THEN r
    ELSE IF ~read_float(blk, r.p).ok THEN Step("struct.error", r.m, Len(blk))
    ELSE Step("ok", [r.m EXCEPT !.meta.tuning = read_float(blk, r.p).val],
              r.p + 4)

\* the module after a call of __read_compat_flags whose flag reads gave c
compat_step(m, blk, c) ==
    Step(IF c.err THEN "error" ELSE "ok", [m EXCEPT !.compat_flags = c.flags],
         call_end(blk, c))

\* self.__read_compat_flags(info_blk, phase)
info_compat(r, v, blk, phase) ==
    IF r.st # "ok" THEN r
    ELSE compat_step(r.m, blk,
                     read_phase_flags(blk, v, phase, r.p, r.m.compat_flags, <<>>))

\* self.__<f> = [read_int(info_blk) for _ in range(n)]
ptr_table(r, blk, f, n) ==
    IF r.st # "ok" THEN r
    ELSE IF avail(blk, r.p) \div 4 < n THEN Step("struct.error", r.m, Len(blk))
    ELSE Step("ok", [r.m EXCEPT ![f] = ints_at(blk, r.p, n)], r.p + 4 * n)

\* the four pointer tables, their lengths being the counts of the fixed
\* part that starts at p0
info_pointers(r, blk, p0) ==
    ptr_table(
        ptr_table(
            ptr_table(
                ptr_table(r, blk, "instrument_ptr", read_short(blk, p0 + 14).val),
                blk, "wavetable_ptr", read_short(blk, p0 + 16).val),
            blk, "sample_ptr", read_short(blk, p0 + 18).val),
        blk, "pattern_ptr", size_of(read_int(blk, p0 + 20).val))

\* the channels whose order list of n bytes is whole in blk from p on
whole_orders(blk, p, nc, n) ==
    IF n = 0 THEN nc ELSE Min(nc, avail(blk, p) \div n)

\* order[channel] = [read_byte(blk) for _ in range(n)] for the first k
\* channels, the other keys of order as they were
orders_read(order, blk, p, k, n) ==
    [c \in DOMAIN order \cup 0..(k - 1) |->
        IF c < k THEN bytes_at(blk, p + c * n, n) ELSE order[c]]

\* the order lists of a subsong with nc channels
sub_orders(sub, blk, p, nc, n) ==
    [sub EXCEPT !.order = orders_read(sub.order, blk, p, whole_orders(blk, p, nc, n), n)]

\* effect_columns, then channel_display with shown and collapsed, for nc
\* channels from p on: each is set as far as the bytes go
sub_columns(sub, blk, p, nc) ==
    IF avail(blk, p) < nc THEN sub
    ELSE [sub EXCEPT
            !.effect_columns = bytes_at(blk, p, nc),
            !.channel_display =
                [i \in 1..nc |->
                    ChannelDisplayInfo(<<>>, <<>>,
                        IF avail(blk, p) >= 2 * nc + i
                        THEN blk[p + 2 * nc + i] # 0 ELSE FALSE,
                        IF avail(blk, p) >= nc + i
                        THEN blk[p + nc + i] # 0 ELSE TRUE)]]

\* channel_display[i].<f> = read_str(blk) for the channels from i on (from
\* 1), on subsong k of the module
RECURSIVE display_strs(_, _, _, _, _, _)
display_strs(r, blk, k, f, i, nc) ==
    IF r.st # "ok" \/ i > nc THEN r
    ELSE IF read_str(blk, r.p).hang THEN Step("hang", r.m, Len(blk))
    ELSE IF read_str(blk, r.p).bad
    THEN Step("UnicodeDecodeError", r.m, read_str(blk, r.p).pos)
    ELSE display_strs(
            Step("ok",
                 [r.m EXCEPT !.subsongs[k].channel_display[i][f] =
                                 read_str(blk, r.p).val],
                 read_str(blk, r.p).pos),
            blk, k, f, i + 1, nc)

\* orders, effect columns and channel display of subsong k, which has n
\* orders and nc channels
channel_tables(r, blk, k, nc, n) ==
    IF r.st # "ok" THEN r
    ELSE IF whole_orders(blk, r.p, nc, n) < nc
    THEN Step("struct.error",
              [r.m EXCEPT !.subsongs[k] = sub_orders(@, blk, r.p, nc, n)],
              Len(blk))
    ELSE IF avail(blk, r.p + nc * n) < 3 * nc
    THEN Step("struct.error",
              [r.m EXCEPT !.subsongs[k] =
                  sub_columns(sub_orders(@, blk, r.p, nc, n), blk, r.p + nc * n, nc)],
              Len(blk))
    ELSE display_strs(
            display_strs(
                Step("ok",
                     [r.m EXCEPT !.subsongs[k] =
                         sub_columns(sub_orders(@, blk, r.p, nc, n), blk,
                                     r.p + nc * n, nc)],
                     r.p + nc * n + 3 * nc),
                blk, k, "name", 1, nc),
            blk, k, "abbreviation", 1, nc)

\* if version >= 59: self.chips.master_volume = read_float(info_blk)
info_master_volume(r, v, blk) ==
    IF r.st # "ok" \/ v < 59 THEN r
    ELSE IF ~read_float(blk, r.p).ok THEN Step("struct.error", r.m, Len(blk))
    ELSE Step("ok", [r.m EXCEPT !.master_volume = read_float(blk, r.p).val],
              r.p + 4)

\* after compat flags part II: virtual_tempo from version 96 on, four
\* reserved bytes before
info_virtual_tempo(r, v, blk) ==
    IF r.st # "ok" \/ v < 70 THEN r
    ELSE IF v < 96 THEN Step("ok", r.m, stream_read(blk, r.p, 4).pos)
    ELSE IF avail(blk, r.p) < 4 THEN Step("struct.error", r.m, Len(blk))
    ELSE Step("ok",
              [r.m EXCEPT !.subsongs[1].timing.virtual_tempo =
                  <<read_short(blk, r.p).val, read_short(blk, r.p + 2).val>>],
              r.p + 4)

\* num_extra_subsongs, three reserved bytes and the subsong pointers
info_subsong_ptr(r, blk) ==
    IF r.st # "ok" THEN r
    ELSE IF avail(blk, r.p) < 1 THEN Step("struct.error", r.m, Len(blk))
    ELSE ptr_table(Step("ok", r.m, stream_read(blk, r.p + 1, 3).pos), blk,
                   "subsong_ptr", blk[r.p + 1])

\* if version >= 95: name and comment of the first subsong and the subsong
\* pointers
info_subsongs(r, v, blk) ==
    IF r.st # "ok" \/ v < 95 THEN r
    ELSE info_subsong_ptr(
            subsong_str(subsong_str(r, blk, "name"), blk, "comment"), blk)

\* if version >= 103: the extra metadata
info_extra_meta(r, v, blk) ==
    IF r.st # "ok" \/ v < 103 THEN r
    ELSE meta_str(meta_str(meta_str(meta_str(meta_str(meta_str(
            r, blk, "sys_name"), blk, "album"), blk, "name_jp"),
            blk, "author_jp"), blk, "sys_name_jp"), blk, "album_jp")

\* volume, panning and surround of the chips as floats, twelve bytes a
\* chip from p on, each set as far as the bytes go
chip_mixer(chips, blk, p) ==
    [i \in 1..Len(chips) |->
        [chips[i] EXCEPT
            !.volume = IF avail(blk, p) >= 12 * (i - 1) + 4
                       THEN read_float(blk, p + 12 * (i - 1)).val ELSE @,
            !.panning = IF avail(blk, p) >= 12 * (i - 1) + 8
                        THEN read_float(blk, p + 12 * (i - 1) + 4).val ELSE @,
            !.surround = IF avail(blk, p) >= 12 * i
                         THEN read_float(blk, p + 12 * (i - 1) + 8).val ELSE @]]

\* enums.InputPortSet and enums.OutputPortSet, by value
InputPortSets == {0, 4095}
OutputPortSets == 0..31 \cup {4093, 4094, 4095}

\* data_types.PatchBay of the shorts src and dst
PatchBay(src, dst) ==
    [dest |-> [set |-> src \div 16, port |-> src % 16],
     source |-> [set |-> dst \div 16, port |-> dst % 16]]

\* connection j (from 1) of the patchbay that starts at p raises ValueError
bad_connection(blk, p, j) ==
    \/ read_short(blk, p + 4 * (j - 1)).val \div 16 \notin InputPortSets
    \/ read_short(blk, p + 4 * (j - 1) + 2).val \div 16 \notin OutputPortSets

\* the connections of n from p on that are whole in blk
whole_connections(blk, p, n) == Min(n, avail(blk, p) \div 4)

\* the connections of the patchbay that are appended: the whole ones before
\* the first that raises
connections_read(blk, p, n) ==
    IF \A j \in 1..whole_connections(blk, p, n) : ~bad_connection(blk, p, j)
    THEN whole_connections(blk, p, n)
    ELSE (CHOOSE j \in 1..whole_connections(blk, p, n) :
            /\ bad_connection(blk, p, j)
            /\ \A i \in 1..(j - 1) : ~bad_connection(blk, p, i)) - 1

patchbay_at(blk, p, k) ==
    [j \in 1..k |-> PatchBay(read_short(blk, p + 4 * (j - 1)).val,
                             read_short(blk, p + 4 * (j - 1) + 2).val)]

\* the patchbay of n connections from p on, k of them appended
info_patchbay_of(m, blk, p, n, k) ==
    Step(IF k = n THEN "ok"
         ELSE IF k < whole_connections(blk, p, n) THEN "ValueError"
         ELSE "struct.error",
         [m EXCEPT !.patchbay = @ \o patchbay_at(blk, p, k)],
         IF k = n THEN p + 4 * n
         ELSE IF k < whole_connections(blk, p, n) THEN p + 4 * (k + 1)
         ELSE Len(blk))

\* if version >= 135: the new chip mixer and the patchbay
info_mixer(r, v, blk) ==
    IF r.st # "ok" \/ v < 135 THEN r
    ELSE IF avail(blk, r.p) < 12 * Len(r.m.chips) + 4
    THEN Step("struct.error",
              [r.m EXCEPT !.chips = chip_mixer(@, blk, r.p)], Len(blk))
    ELSE info_patchbay_of(
            [r.m EXCEPT !.chips = chip_mixer(@, blk, r.p)], blk,
            r.p + 12 * Len(r.m.chips) + 4,
            size_of(read_int(blk, r.p + 12 * Len(r.m.chips)).val),
            connections_read(blk, r.p + 12 * Len(r.m.chips) + 4,
                             size_of(read_int(blk, r.p + 12 * Len(r.m.chips)).val)))

\* if version >= 136: self.compat_flags.auto_patchbay = bool(read_byte())
info_auto_patchbay(r, v, blk) ==
    IF r.st # "ok" \/ v < 136 THEN r
    ELSE IF avail(blk, r.p) < 1 THEN Step("struct.error", r.m, Len(blk))
    ELSE Step("ok",
              [r.m EXCEPT !.compat_flags.auto_patchbay = blk[r.p + 1] # 0],
              r.p + 1)

\* the speed pattern of subsong k: its length, then that many bytes
speed_pattern(r, blk, k) ==
    IF r.st # "ok" THEN r
    ELSE IF avail(blk, r.p) < 1 THEN Step("struct.error", r.m, Len(blk))
    ELSE IF blk[r.p + 1] > 16 THEN Step("ValueError", r.m, r.p + 1)
    ELSE IF avail(blk, r.p + 1) < blk[r.p + 1]
    THEN Step("struct.error", r.m, Len(blk))
    ELSE Step("ok",
              [r.m EXCEPT !.subsongs[k].speed_pattern =
                  bytes_at(blk, r.p + 1, blk[r.p + 1])],
              r.p + 1 + blk[r.p + 1])

\* info_blk.read(16 - n)
skip_to_16(r, blk, n) ==
    IF r.st # "ok" THEN r ELSE Step("ok", r.m, skip_reserved(blk, r.p, 16 - n))

\* one groove of the first subsong: its length, that many bytes, then
\* info_blk.read(16 - len_groove)
groove(r, blk) ==
    IF r.st # "ok" THEN r
    ELSE IF avail(blk, r.p) < 1 \/ avail(blk, r.p + 1) < blk[r.p + 1]
    THEN Step("struct.error", r.m, Len(blk))
    ELSE Step("ok",
              [r.m EXCEPT !.subsongs[1].grooves =
                  Append(@, bytes_at(blk, r.p + 1, blk[r.p + 1]))],
              skip_reserved(blk, r.p + 1 + blk[r.p + 1], 16 - blk[r.p + 1]))

\* the grooves of the first subsong, n of them left
RECURSIVE grooves(_, _, _)
grooves(r, blk, n) ==
    IF r.st # "ok" \/ n = 0 THEN r
    ELSE grooves(groove(r, blk), blk, n - 1)

\* len_groove_list = read_byte(info_blk)
groove_list_length(r, blk) ==
    IF r.st # "ok" THEN r
    ELSE IF avail(blk, r.p) < 1 THEN Step("struct.error", r.m, Len(blk))
    ELSE Step("ok", r.m, r.p + 1)

\* the groove list: its length, then the grooves
groove_list(r, blk) ==
    IF r.st # "ok" \/ avail(blk, r.p) < 1 THEN groove_list_length(r, blk)
    ELSE grooves(groove_list_length(r, blk), blk, blk[r.p + 1])

\* the speed pattern of the first subsong with its padding
info_speed_pattern(r, blk) ==
    IF r.st # "ok" THEN r
    ELSE skip_to_16(speed_pattern(r, blk, 1), blk,
                    IF avail(blk, r.p) < 1 THEN 0 ELSE blk[r.p + 1])

\* if version >= 139: speed pattern and grooves
info_grooves(r, v, blk) ==
    IF r.st # "ok" \/ v < 139 THEN r
    ELSE groove_list(info_speed_pattern(r, blk), blk)

\* orders, effect columns and channel display of the first subsong
info_channels(r, blk, n) ==
    channel_tables(r, blk, 1, get_num_channels(r.m), n)

\* self.__read_compat_flags(info_blk, phase) of the versions from `from` on
info_compat_from(r, v, blk, phase, from) ==
    IF v < from THEN r ELSE info_compat(r, v, blk, phase)

\* __read_info on info_blk, from "info of first subsong" at offset p0 on
info_body(m, v, blk, p0) ==
    info_grooves(
     info_compat_from(
      info_auto_patchbay(
       info_mixer(
        info_extra_meta(
         info_subsongs(
          info_virtual_tempo(
           info_compat_from(
            info_master_volume(
             meta_str(
              info_channels(
               info_pointers(
                info_compat(
                 info_tuning(
                  meta_str(meta_str(info_fixed(m, v, blk, p0), blk, "name"),
                           blk, "author"),
                  blk),
                 v, blk, 1),
                blk, p0),
               blk, read_short(blk, p0 + 10).val),
              blk, "comment"),
             v, blk),
            v, blk, 2, 70),
           v, blk),
          v, blk),
         v, blk),
        v, blk),
       v, blk),
      v, blk, 3, 138),
     v, blk)

INFO_MAGIC == <<73, 78, 70, 79>>

\* __read_info(stream) after stream.seek(p)
read_info_at(m, s, p) ==
    IF stream_read(s, p, 4).bytes # INFO_MAGIC
    THEN Step("ValueError", m, 0)
    ELSE IF m.meta.version < 100
    THEN info_body(m, m.meta.version, s, stream_read(s, p + 4, 4).pos)
    ELSE IF ~read_int(s, p + 4).ok
    THEN Step("struct.error", m, 0)
    ELSE info_body(m, m.meta.version,
                   stream_read(s, p + 8, size_of(read_int(s, p + 4).val)).bytes, 0)

\* __read_info(stream): the module and how the call ended
read_info(m, s) == read_info_at(m, s, seek(s, m.song_info_ptr))

\* "clear defaults" of load_from_stream
clear_defaults(m) ==
    [m EXCEPT !.chips = <<>>, !.patchbay = <<>>,
              !.subsongs[1] = cleared_subsong(@)]

\* __read_header(stream), the stream after the magic
read_header(m, s) ==
    IF ~read_short(s, 16).ok THEN Step("struct.error", m, Len(s))
    ELSE IF ~read_int(s, 20).ok
    THEN Step("struct.error",
              [m EXCEPT !.meta.version = read_short(s, 16).val], Len(s))
    ELSE Step("ok",
              [m EXCEPT !.meta.version = read_short(s, 16).val,
                        !.song_info_ptr = read_int(s, 20).val],
              stream_read(s, 24, 8).pos)

\* __init_compat_flags()
module_init_compat_flags(r) ==
    IF r.st # "ok" THEN r
    ELSE Step("ok",
              [r.m EXCEPT !.compat_flags =
                  assign_legacy(@, r.m.meta.version, init_compat_table)],
              r.p)

\* self.__read_info(stream)
module_read_info(r, s) == IF r.st # "ok" THEN r ELSE read_info(r.m, s)

\* the flags of chip i (from 1) after __read_dev119_chip_flags has come to
\* it
chip_flags_read(s, m, i) ==
    read_dev119_chip_flags(s, seek(s, m.chip_flag_ptr[i]))

\* the first chip whose FLAG block fails, or 0
first_bad_flags(s, m) ==
    IF \A i \in 1..Len(m.chips) : chip_flags_read(s, m, i).st = "done" THEN 0
    ELSE CHOOSE i \in 1..Len(m.chips) :
            /\ chip_flags_read(s, m, i).st # "done"
            /\ \A j \in 1..(i - 1) : chip_flags_read(s, m, j).st = "done"

\* the entries of old whose key new does not set, and those of new
flags_updated(old, new) ==
    {e \in old : \A f \in new : f[1] # e[1]} \cup new

\* __read_dev119_chip_flags(stream), bad being first_bad_flags
dev119_chip_flags(s, m, bad) ==
    Step(IF bad = 0 THEN "ok" ELSE chip_flags_read(s, m, bad).st,
         [m EXCEPT !.chips =
            [i \in 1..Len(m.chips) |->
                IF bad = 0 \/ i <= bad
                THEN [m.chips[i] EXCEPT !.flags =
                        flags_updated(@, chip_flags_read(s, m, i).flags)]
                ELSE m.chips[i]]],
         0)

\* if self.meta.version >= 119: self.__read_dev119_chip_flags(stream)
module_chip_flags(r, s) ==
    IF r.st # "ok" \/ r.m.meta.version < 119 THEN r
    ELSE dev119_chip_flags(s, r.m, first_bad_flags(s, r.m))

\* load_from_stream(stream) up to the chip flags, with the defaults cleared
\* before the magic is read
load_head_clearing_first(m, s) ==
    IF stream_read(s, 0, 16).bytes # MAGIC_STR
    THEN Step("RuntimeError", clear_defaults(m), 0)
    ELSE module_chip_flags(
            module_read_info(
                module_init_compat_flags(read_header(clear_defaults(m), s)), s),
            s)

\* load_from_stream(stream) up to the chip flags
load_head(m, s) ==
    IF stream_read(s, 0, 16).bytes # MAGIC_STR THEN Step("RuntimeError", m, 0)
    ELSE module_chip_flags(
            module_read_info(
                module_init_compat_flags(read_header(clear_defaults(m), s)), s),
            s)

\* --- the pointer tables ---

\* the pointers of a table that the loop follows, with `continue` in the
\* place of `break`
live_pointers_skipping_zeros(ptrs) == SelectSeq(ptrs, LAMBDA x : x # IntVal(0))

\* the pointers of a table that the loop follows: `if i == 0: break`
live_pointers(ptrs) ==
    IF \A i \in 1..Len(ptrs) : ptrs[i] # IntVal(0) THEN ptrs
    ELSE SubSeq(ptrs, 1, (CHOOSE i \in 1..Len(ptrs) :
                             /\ ptrs[i] = IntVal(0)
                             /\ \A j \in 1..(i - 1) : ptrs[j] # IntVal(0)) - 1)

\* the load of one entity has returned
entity_done(e) == e.st \in {"ok", "done"}

\* the number of entities at the head of es whose load has returned
done_before_raise(es) ==
    IF \A j \in 1..Len(es) : entity_done(es[j]) THEN Len(es)
    ELSE (CHOOSE j \in 1..Len(es) :
            ~entity_done(es[j]) /\ \A i \in 1..(j - 1) : entity_done(es[i])) - 1

\* the loop over a pointer table whose entities load as es: each is
\* appended to the list f until one raises
table_loop(m, f, es) ==
    Step(IF done_before_raise(es) = Len(es) THEN "ok"
         ELSE es[done_before_raise(es) + 1].st,
         [m EXCEPT ![f] = @ \o SubSeq(es, 1, done_before_raise(es))],
         0)

\* new_ins.load_from_stream(stream, ...) after stream.seek(i)
instrument_at(m, s, i) ==
    fins_load_from_stream(new_instrument, s, seek(s, i),
                          IF m.meta.version < 127 THEN "FORMAT_0_EMBED"
                          ELSE "FORMAT_1_EMBED")

\* __read_instruments(stream)
read_instruments(m, s) ==
    table_loop(m, "instruments",
               [j \in 1..Len(live_pointers(m.instrument_ptr)) |->
                   instrument_at(m, s, live_pointers(m.instrument_ptr)[j])])

\* __read_wavetables(stream)
read_wavetables(m, s) ==
    table_loop(m, "wavetables",
               [j \in 1..Len(live_pointers(m.wavetable_ptr)) |->
                   wave_load_from_stream(s, seek(s, live_pointers(m.wavetable_ptr)[j]),
                                         "EMBED")])

SMP2_MAGIC == <<83, 77, 80, 50>>

\* a FurnaceSample: st is "new" before a load, then "ok" when the load
\* returned and the exception otherwise; the other fields are meta.name,
\* meta.length, meta.depth, meta.loop_start, meta.loop_end and data.
\* SampleMeta declares bitdepth, which no load assigns; the load stores the
\* depth byte in meta.depth, an attribute that a new SampleMeta does not have
FurnaceSample(st, name, length, depth, loop_start, loop_end, data) ==
    [st |-> st, name |-> name, length |-> length, bitdepth |-> 0,
     depth |-> depth, loop_start |-> loop_start, loop_end |-> loop_end,
     data |-> data]

\* FurnaceSample(): SampleMeta() and b''
new_sample ==
    FurnaceSample("new", <<>>, IntVal(0), "unset", IntVal(0), IntVal(0), <<>>)

\* lines 37 to 47 of load_from_stream, from offset a of smp_data, after
\* meta.name is assigned: a read that raises leaves the fields assigned
\* before it
sample_fields(smp, d, a) ==
    IF avail(d, a) < 4 THEN [smp EXCEPT !.st = "struct.error"]
    ELSE IF avail(d, a) < 12
    THEN [smp EXCEPT !.st = "struct.error", !.length = read_int(d, a).val]
    ELSE IF avail(d, a) < 13
    THEN [smp EXCEPT !.st = "IndexError", !.length = read_int(d, a).val]
    ELSE IF avail(d, a) < 20
    THEN [smp EXCEPT !.st = "struct.error", !.length = read_int(d, a).val,
                     !.depth = d[a + 13]]
    ELSE IF avail(d, a) < 24
    THEN [smp EXCEPT !.st = "struct.error", !.length = read_int(d, a).val,
                     !.depth = d[a + 13],
                     !.loop_start = read_int(d, a + 16).val]
    ELSE FurnaceSample("ok", smp.name, read_int(d, a).val, d[a + 13],
                       read_int(d, a + 16).val, read_int(d, a + 20).val,
                       stream_read(d, stream_read(d, a + 24, 16).pos,
                                   size_of(read_int(d, a).val)).bytes)

\* the sample read from smp_data d at offset p: meta.name, then the fields
sample_data(smp, d, p) ==
    IF read_str(d, p).hang THEN [smp EXCEPT !.st = "hang"]
    ELSE IF read_str(d, p).bad THEN [smp EXCEPT !.st = "UnicodeDecodeError"]
    ELSE sample_fields([smp EXCEPT !.name = read_str(d, p).val], d,
                       read_str(d, p).pos)

\* FurnaceSample.load_from_stream(stream) on the sample smp, the stream at
\* offset p
sample_load_from_stream(smp, s, p) ==
    IF stream_read(s, p, 4).bytes # SMP2_MAGIC
    THEN [smp EXCEPT !.st = "ValueError"]
    ELSE IF ~read_int(s, p + 4).ok THEN [smp EXCEPT !.st = "struct.error"]
    ELSE IF size_of(read_int(s, p + 4).val) > 0
    THEN sample_data(smp, stream_read(s, p + 8,
                                      size_of(read_int(s, p + 4).val)).bytes, 0)
    ELSE sample_data(smp, s, p + 8)

\* __read_samples(stream)
read_samples(m, s) ==
    table_loop(m, "samples",
               [j \in 1..Len(live_pointers(m.sample_ptr)) |->
                   sample_load_from_stream(new_sample, s,
                                           seek(s, live_pointers(m.sample_ptr)[j]))])

SONG_MAGIC == <<83, 79, 78, 71>>

\* the timing fields of an extra subsong, 18 bytes from the start of blk
extra_timing(sub, blk) ==
    [sub EXCEPT
        !.timing =
            [timebase |-> blk[1], speed |-> <<blk[2], blk[3]>>,
             arp_speed |-> blk[4], clock_speed |-> read_float(blk, 4).val,
             highlight |-> <<blk[13], blk[14]>>,
             virtual_tempo |-> <<read_short(blk, 14).val, read_short(blk, 16).val>>],
        !.pattern_length = read_short(blk, 8).val]

\* name and comment of the subsong that is being read (the last of r.m)
extra_strs(r, blk) ==
    IF read_str(blk, r.p).hang THEN Step("hang", r.m, Len(blk))
    ELSE IF read_str(blk, r.p).bad
    THEN Step("UnicodeDecodeError", r.m, read_str(blk, r.p).pos)
    ELSE IF read_str(blk, read_str(blk, r.p).pos).hang
    THEN Step("hang", r.m, Len(blk))
    ELSE IF read_str(blk, read_str(blk, r.p).pos).bad
    THEN Step("UnicodeDecodeError", r.m,
              read_str(blk, read_str(blk, r.p).pos).pos)
    ELSE Step("ok",
              [r.m EXCEPT
                 !.subsongs[Len(r.m.subsongs)].name = read_str(blk, r.p).val,
                 !.subsongs[Len(r.m.subsongs)].comment =
                     read_str(blk, read_str(blk, r.p).pos).val],
              read_str(blk, read_str(blk, r.p).pos).pos)

\* if self.meta.version >= 139: the speed pattern of the subsong
extra_speed_pattern(r, blk) ==
    IF r.st # "ok" \/ r.m.meta.version < 139 THEN r
    ELSE speed_pattern(r, blk, Len(r.m.subsongs))

\* the channel tables of the subsong that is being read
extra_channels(r, blk) ==
    IF r.st # "ok" THEN r
    ELSE channel_tables(r, blk, Len(r.m.subsongs), get_num_channels(r.m),
                        read_short(blk, 10).val)

\* one SONG block on subsong_blk: the module with new_subsong at the end of
\* its list while the block is read
subsong_body(m, blk) ==
    IF avail(blk, 0) < 18 THEN Step("struct.error", m, Len(blk))
    ELSE extra_speed_pattern(
            extra_channels(
                extra_strs(
                    Step("ok",
                         [m EXCEPT !.subsongs =
                             Append(@, extra_timing(cleared_subsong(SubSong), blk))],
                         18),
                    blk),
                blk),
            blk)

\* the subsong read from the block at pointer i: st, and sub when st is ok
subsong_read(r) ==
    IF r.st = "ok" THEN [st |-> "ok", sub |-> r.m.subsongs[Len(r.m.subsongs)]]
    ELSE [st |-> r.st]

subsong_at(m, s, i) ==
    IF stream_read(s, i, 4).bytes # SONG_MAGIC THEN [st |-> "ValueError"]
    ELSE IF ~read_int(s, i + 4).ok THEN [st |-> "struct.error"]
    ELSE subsong_read(
            subsong_body(m, stream_read(s, i + 8,
                                        size_of(read_int(s, i + 4).val)).bytes))

\* the subsongs of the entities that were appended
subs_of(es) == [j \in 1..Len(es) |-> es[j].sub]

\* the loop of __read_subsongs over entities that load as es
subsong_loop(m, es) ==
    Step(IF done_before_raise(es) = Len(es) THEN "ok"
         ELSE es[done_before_raise(es) + 1].st,
         [m EXCEPT !.subsongs = @ \o subs_of(SubSeq(es, 1, done_before_raise(es)))],
         0)

\* __read_subsongs(stream)
read_subsongs(m, s) ==
    subsong_loop(m,
                 [j \in 1..Len(live_pointers(m.subsong_ptr)) |->
                     subsong_at(m, s, seek(s, live_pointers(m.subsong_ptr)[j]))])

PATR_MAGIC == <<80, 65, 84, 82>>
PATN_MAGIC == <<80, 65, 84, 78>>

\* patr_blk: the stream itself when sz is 0
patr_blk_of(s, p, sz) ==
    IF sz = 0 THEN SubSeq(s, p + 1, Len(s)) ELSE stream_read(s, p, sz).bytes

\* one pass of the loop of __read_patterns, the pointer being i
pattern_at(m, s, i) ==
    IF stream_read(s, i, 4).bytes #
            (IF m.meta.version < 157 THEN PATR_MAGIC ELSE PATN_MAGIC)
    THEN [st |-> "ValueError"]
    ELSE IF ~read_int(s, i + 4).ok THEN [st |-> "struct.error"]
    ELSE decode_pattern(patr_blk_of(s, i + 8, size_of(read_int(s, i + 4).val)),
                        m.meta.version, m.subsongs)

pats_of(es) == [j \in 1..Len(es) |-> es[j].pat]

\* the loop of __read_patterns over entities that load as es
pattern_loop(m, es) ==
    Step(IF done_before_raise(es) = Len(es) THEN "ok"
         ELSE es[done_before_raise(es) + 1].st,
         [m EXCEPT !.patterns = @ \o pats_of(SubSeq(es, 1, done_before_raise(es)))],
         0)

\* __read_patterns(stream)
read_patterns(m, s) ==
    pattern_loop(m,
                 [j \in 1..Len(live_pointers(m.pattern_ptr)) |->
                     pattern_at(m, s, seek(s, live_pointers(m.pattern_ptr)[j]))])

\* ------------------------------------------------------------------------
\* ModSpec: module files loaded into one FurnaceModule, one after the other
\* ------------------------------------------------------------------------

\* The files are laid out as the readers above consume them: the header,
\* the blocks that the pointer tables may lead to, and the INFO block last.

sized_block(magic, body) == magic \o S32(Len(body)) \o body

\* order lists (n orders), effect columns, shown, collapsed, names and
\* abbreviations of nc channels
channel_bytes(nc, n) ==
    Zeros(nc * n) \o Rep(<<1>>, nc) \o Rep(<<1>>, nc) \o Zeros(3 * nc)

\* the rows of the patterns: pattern length 2, one effect column
ModRows == <<FurnaceRow(1, 2, 0, 64, <<<<15, 1>>>>), empty_row(1)>>

song_block(v, nc) ==
    sized_block(SONG_MAGIC,
                <<0, 6, 6, 1>> \o Zeros(4) \o U16(2) \o U16(1) \o <<4, 16>>
                    \o U16(150) \o U16(150) \o <<115, 0, 0>>
                    \o channel_bytes(nc, 1)
                    \o (IF v >= 139 THEN <<1, 3>> ELSE <<>>))

\* the rows of the patterns of the longer subsong: pattern length 3, two
\* effect columns
ModLongRows ==
    <<FurnaceRow(1, 2, 0, 64, <<<<15, 1>>, <<15, 2>>>>), empty_row(2),
      FurnaceRow(3, 4, 1, 32, <<<<10, 1>>, <<11, 2>>>>)>>

\* a subsong of pattern length 3 with two effect columns on every channel
long_song_block(v, nc) ==
    sized_block(SONG_MAGIC,
                <<1, 3, 3, 1>> \o Zeros(4) \o U16(3) \o U16(1) \o <<4, 16>>
                    \o U16(150) \o U16(150) \o <<116, 0, 0>>
                    \o Zeros(nc) \o Rep(<<2>>, nc) \o Rep(<<1>>, nc)
                    \o Zeros(3 * nc)
                    \o (IF v >= 139 THEN <<1, 3>> ELSE <<>>))

pattern_block(v, pat) ==
    IF v < 157 THEN sized_block(PATR_MAGIC, encode_patr(pat))
    ELSE sized_block(PATN_MAGIC, encode_patn(pat))

\* the blocks of a file of version v with nc channels: 1 an instrument
\* (legacy before version 127), 2 a wavetable, 3 a sample, 4 a subsong,
\* 5 and 6 two patterns with the key (0, 0, 0), 7 the pattern (0, 1, 0),
\* 8 a pattern of subsong 1 with three rows of two effects, 9 a subsong of
\* pattern length 3
mod_blocks(v, nc) ==
    << IF v < 127
       THEN encode_format_0([version |-> v, kind |-> MacroCode_VOL,
                             name |-> <<73>>, sized |-> TRUE, vals |-> <<5>>,
                             loop |-> -1, rel |-> -1, open |-> FALSE,
                             mode |-> 0, speed |-> 1, delay |-> 0])
       ELSE ins2_block(U16(v) \o U16(1) \o feature_block(NA, <<105, 0>>) \o EN),
       wave_block("exact", wave_body(<<119>>, 2, IntVal(15), <<IntVal(3), IntVal(9)>>)),
       sized_block(SMP2_MAGIC,
                   <<115, 0>> \o S32(2) \o Zeros(8) \o <<8, 0, 0, 0>>
                       \o S32(0) \o S32(1) \o Zeros(16) \o <<7, 9>>),
       song_block(v, nc),
       pattern_block(v, FurnacePattern(0, 0, 0, ModRows, <<>>)),
       pattern_block(v, FurnacePattern(0, 0, 0, <<ModRows[2], ModRows[1]>>, <<>>)),
       pattern_block(v, FurnacePattern(0, 1, 0, ModRows, <<>>)),
       pattern_block(v, FurnacePattern(0, 0, 1, ModLongRows, <<>>)),
       long_song_block(v, nc) >>

HEADER_SIZE == 32

\* the offset of block k (from 1) of the blocks bs, which follow the header
RECURSIVE block_offset(_, _)
block_offset(bs, k) ==
    IF k = 1 THEN HEADER_SIZE ELSE block_offset(bs, k - 1) + Len(bs[k - 1])

\* a pointer table: a zero for 0, the offset of block k for k
pointers_to(bs, ks) ==
    Concat([j \in 1..Len(ks) |->
               S32(IF ks[j] = 0 THEN 0 ELSE block_offset(bs, ks[j]))])

padded(x, n) == x \o Zeros(n - Len(x))

\* the body of the INFO block of a file with the chips `chips` (nc
\* channels) and the pointer tables t, over the blocks bs
info_bytes(v, chips, nc, t, bs) ==
    <<0, 6, 6, 1>> \o Zeros(4) \o U16(2) \o U16(1) \o <<4, 16>>
        \o U16(Len(t.ins)) \o U16(Len(t.waves)) \o U16(Len(t.samples))
        \o S32(Len(t.patterns))
        \o padded(chips, MAX_CHIPS) \o Rep(<<64>>, MAX_CHIPS)
        \o Zeros(MAX_CHIPS) \o Zeros(4 * MAX_CHIPS)
        \o <<109, 0, 97, 0>> \o Zeros(4) \o Zeros(20)
        \o pointers_to(bs, t.ins) \o pointers_to(bs, t.waves)
        \o pointers_to(bs, t.samples) \o pointers_to(bs, t.patterns)
        \o channel_bytes(nc, 1) \o <<0>>
        \o (IF v >= 59 THEN Zeros(4) ELSE <<>>)
        \o (IF v >= 70 THEN Zeros(28) \o U16(150) \o U16(150) ELSE <<>>)
        \o (IF v >= 95
            THEN <<0, 0, Len(t.subsongs), 0, 0, 0>> \o pointers_to(bs, t.subsongs)
            ELSE <<>>)
        \o (IF v >= 103 THEN Zeros(6) ELSE <<>>)
        \o (IF v >= 135
            THEN Zeros(12 * Len(chips)) \o S32(1) \o U16(0) \o U16(16)
            ELSE <<>>)
        \o (IF v >= 136 THEN <<1>> ELSE <<>>)
        \o (IF v >= 138 THEN Zeros(8) ELSE <<>>)
        \o (IF v >= 139
            THEN <<1, 6>> \o Zeros(15) \o <<1, 2, 3, 4>> \o Zeros(14)
            ELSE <<>>)

info_block(v, body) ==
    IF v < 100 THEN INFO_MAGIC \o Zeros(4) \o body
    ELSE sized_block(INFO_MAGIC, body)

\* the header: signature, version, two reserved bytes, the pointer to the
\* INFO block, eight reserved bytes
header_bytes(magic, v, ptr) == magic \o U16(v) \o Zeros(2) \o S32(ptr) \o Zeros(8)

module_file_of(magic, v, bs, body) ==
    header_bytes(magic, v, HEADER_SIZE + Len(Concat(bs)))
        \o Concat(bs) \o info_block(v, body)

\* the file of version v with the chips `chips` and the pointer tables t
module_file(magic, v, chips, t) ==
    module_file_of(magic, v,
                   mod_blocks(v, sum_channels([i \in 1..Len(chips) |-> new_chip(chips[i])], Len(chips))),
                   info_bytes(v, chips,
                              sum_channels([i \in 1..Len(chips) |-> new_chip(chips[i])], Len(chips)),
                              t,
                              mod_blocks(v, sum_channels([i \in 1..Len(chips) |-> new_chip(chips[i])], Len(chips)))))

Tables(ins, waves, samples, subs, pats) ==
    [ins |-> ins, waves |-> waves, samples |-> samples,
     subsongs |-> subs, patterns |-> pats]

\* pointer tables: empty; one entity each; a zero in the middle and at the
\* head of a table; two pointers to patterns with the same key; a pointer
\* to a block of another kind; a pattern of subsong 1 after the longer and
\* the shorter subsong, after the shorter and the longer, and after none
ModTables ==
    { Tables(<<>>, <<>>, <<>>, <<>>, <<>>),
      Tables(<<1>>, <<2>>, <<3>>, <<4>>, <<5>>),
      Tables(<<1, 0, 1>>, <<0, 2>>, <<3, 3, 0, 3>>, <<4, 0, 4>>, <<5, 7, 0, 7>>),
      Tables(<<>>, <<>>, <<>>, <<>>, <<5, 6>>),
      Tables(<<1, 2>>, <<2>>, <<>>, <<>>, <<>>),
      Tables(<<>>, <<>>, <<>>, <<9, 4>>, <<8, 5>>),
      Tables(<<>>, <<>>, <<>>, <<4, 9>>, <<8>>),
      Tables(<<>>, <<>>, <<>>, <<>>, <<8>>) }

\* versions with legacy instruments and no subsongs, with PATR and with
\* PATN patterns
ModVersions == {90, 143, MaxVersion - 1}

\* PET (1 channel); PET and TIA (3 channels)
ModChips == {<<134>>, <<134, 132>>}

BAD_MAGIC == <<45, 70, 117, 114, 110, 97, 99, 101, 32, 109, 111, 100, 117, 108, 101, 33>>

ModFiles ==
    { module_file(MAGIC_STR, v, c, t) :
        v \in ModVersions, c \in ModChips, t \in ModTables }
    \cup { module_file(BAD_MAGIC, 143, <<134>>, Tables(<<1>>, <<2>>, <<3>>, <<4>>, <<5>>)),
           SubSeq(MAGIC_STR, 1, 15) }

\* the files that are loaded into a module that has been loaded before
ModReloads ==
    { module_file(MAGIC_STR, v, c, Tables(<<1>>, <<2>>, <<3>>, <<4>>, <<5>>)) :
        v \in {90, MaxVersion - 1}, c \in ModChips }
    \cup { module_file(MAGIC_STR, 143, <<134>>, Tables(<<>>, <<>>, <<>>, <<>>, <<>>)),
           module_file(BAD_MAGIC, 143, <<134>>, Tables(<<1>>, <<2>>, <<3>>, <<4>>, <<5>>)) }

MaxLoads == 2

ModInit ==
    /\ OthersIdle("mod")
    /\ mod_stream = <<>>
    /\ mod_self = FurnaceModule
    /\ mod_before = FurnaceModule
    /\ mod_new = FurnaceModule
    /\ mod_loads = 0
    /\ mod_st = "ok"
    /\ mod_seeks = <<>>
    /\ mod_clean = TRUE
    /\ modpc = "new"

\* one step of a load has left the two modules as r and rn
ModStep(r, rn, next) ==
    /\ mod_self' = r.m
    /\ mod_new' = rn.m
    /\ mod_st' = r.st
    /\ mod_clean' = (mod_clean /\ r.st = "ok")
    /\ modpc' = IF r.st = "ok" THEN next ELSE "error"

\* the offsets the loop over the table ptr has sought when it has left the
\* list f of m as that of r.m: those of the entities appended, and that of
\* the entity that raised
table_seeks(m, r, f, ptr) ==
    [j \in 1..Min(Len(live_pointers(m[ptr])), Len(r.m[f]) - Len(m[f]) + 1) |->
        <<f, live_pointers(m[ptr])[j]>>]

\* load_from_stream(stream), up to the chip flags, on the module and on a
\* new FurnaceModule
ModLoad ==
    /\ modpc \in {"new", "done", "error"}
    /\ mod_loads < MaxLoads
    /\ \E f \in IF mod_loads = 0 THEN ModFiles ELSE ModReloads :
        /\ mod_stream' = f
        /\ ModStep(load_head(mod_self, f), load_head(FurnaceModule, f),
                   "instruments")
    /\ mod_before' = mod_self
    /\ mod_loads' = mod_loads + 1
    /\ mod_seeks' = <<>>
    /\ UNCHANGED nonModVars

\* one of the pointer loops: read is its result on the module, readn on the
\* new module
ModTable(read, readn, f, ptr, next) ==
    /\ ModStep(read, readn, next)
    /\ mod_seeks' = mod_seeks \o table_seeks(mod_self, read, f, ptr)
    /\ UNCHANGED <<mod_stream, mod_before, mod_loads>>
    /\ UNCHANGED nonModVars

ModReadInstruments ==
    /\ modpc = "instruments"
    /\ ModTable(read_instruments(mod_self, mod_stream),
                read_instruments(mod_new, mod_stream),
                "instruments", "instrument_ptr", "wavetables")

ModReadWavetables ==
    /\ modpc = "wavetables"
    /\ ModTable(read_wavetables(mod_self, mod_stream),
                read_wavetables(mod_new, mod_stream),
                "wavetables", "wavetable_ptr", "samples")

\* __read_samples with __read_patterns called next whatever the version
ModReadSamplesThenPatterns ==
    /\ modpc = "samples"
    /\ ModTable(read_samples(mod_self, mod_stream),
                read_samples(mod_new, mod_stream),
                "samples", "sample_ptr", "patterns")

\* __read_samples; __read_subsongs follows from version 95 on
ModReadSamples ==
    /\ modpc = "samples"
    /\ ModTable(read_samples(mod_self, mod_stream),
                read_samples(mod_new, mod_stream),
                "samples", "sample_ptr",
                IF mod_self.meta.version >= 95 THEN "subsongs" ELSE "patterns")

ModReadSubsongs ==
    /\ modpc = "subsongs"
    /\ ModTable(read_subsongs(mod_self, mod_stream),
                read_subsongs(mod_new, mod_stream),
                "subsongs", "subsong_ptr", "patterns")

ModReadPatterns ==
    /\ modpc = "patterns"
    /\ ModTable(read_patterns(mod_self, mod_stream),
                read_patterns(mod_new, mod_stream),
                "patterns", "pattern_ptr", "done")

ModNext ==
    \/ ModLoad \/ ModReadInstruments \/ ModReadWavetables \/ ModReadSamples
    \/ ModReadSubsongs \/ ModReadPatterns

ModSpec == ModInit /\ [][ModNext]_vars

\* the steps of load_from_stream after the chip flags
module_read_instruments(r, s) ==
    IF r.st # "ok" THEN r ELSE read_instruments(r.m, s)

module_read_wavetables(r, s) ==
    IF r.st # "ok" THEN r ELSE read_wavetables(r.m, s)

module_read_samples(r, s) ==
    IF r.st # "ok" THEN r ELSE read_samples(r.m, s)

module_read_subsongs(r, s) ==
    IF r.st # "ok" \/ r.m.meta.version < 95 THEN r ELSE read_subsongs(r.m, s)

module_read_patterns(r, s) ==
    IF r.st # "ok" THEN r ELSE read_patterns(r.m, s)

\* FurnaceModule.load_from_stream(stream) on the module m
load_from_stream(m, s) ==
    module_read_patterns(
        module_read_subsongs(
            module_read_samples(
                module_read_wavetables(
                    module_read_instruments(load_head(m, s), s), s), s), s), s)

\* the steps of ModSpec make up load_from_stream
ModStepsAgreeWithLoad ==
    modpc \in {"done", "error"} =>
        /\ mod_self = load_from_stream(mod_before, mod_stream).m
        /\ mod_st = load_from_stream(mod_before, mod_stream).st
        /\ mod_new = load_from_stream(FurnaceModule, mod_stream).m
        /\ mod_st = load_from_stream(FurnaceModule, mod_stream).st

\* the number of pointers of a table before its first zero
before_first_zero(ptrs) ==
    Cardinality({i \in 1..Len(ptrs) : \A j \in 1..i : ptrs[j] # IntVal(0)})

\* the entities a load has appended to the list f
appended(f) == Len(mod_self[f]) - Len(mod_before[f])

\* C13: the pointer loops of a load never seek to offset 0, and a load that
\* returns has appended, for the instrument, wavetable, sample, pattern and
\* extra-subsong table, as many entities as the table has pointers before
\* its first zero (all of them if it has no zero): the pointers after a
\* zero are ignored.
C13_ZeroPointerEndsTable ==
    /\ \A k \in 1..Len(mod_seeks) : mod_seeks[k][2] # IntVal(0)
    /\ modpc = "done" =>
        /\ appended("instruments") = before_first_zero(mod_self.instrument_ptr)
        /\ appended("wavetables") = before_first_zero(mod_self.wavetable_ptr)
        /\ appended("samples") = before_first_zero(mod_self.sample_ptr)
        /\ appended("patterns") = before_first_zero(mod_self.pattern_ptr)
        /\ mod_self.meta.version >= 95 =>
               appended("subsongs") = before_first_zero(mod_self.subsong_ptr)

\* a load has returned whose tables hold a zero at the head, a zero in the
\* middle and nonzero pointers after the zero
C13_Witness ==
    /\ modpc = "done"
    /\ Len(mod_self.instrument_ptr) = 3
    /\ mod_self.instrument_ptr[2] = IntVal(0) /\ mod_self.instrument_ptr[3] # IntVal(0)
    /\ Len(mod_self.wavetable_ptr) = 2
    /\ mod_self.wavetable_ptr[1] = IntVal(0) /\ mod_self.wavetable_ptr[2] # IntVal(0)
    /\ Len(mod_self.sample_ptr) = 4 /\ mod_self.sample_ptr[3] = IntVal(0)
    /\ Len(mod_self.subsong_ptr) = 3 /\ mod_self.subsong_ptr[2] = IntVal(0)
    /\ Len(mod_self.pattern_ptr) = 4 /\ mod_self.pattern_ptr[3] = IntVal(0)
    /\ appended("instruments") = 1 /\ appended("wavetables") = 0
    /\ appended("samples") = 2 /\ appended("subsongs") = 1
    /\ appended("patterns") = 2
    /\ Len(mod_seeks) = 6

\* C14: load_from_stream on a stream whose first 16 bytes are not the
\* container signature fails with an error and leaves meta, chips, compat
\* flags, subsongs, patchbay, instruments, patterns, wavetables and samples
\* of the module as they were before the call.
C14_BadMagicLeavesModule ==
    (mod_loads > 0 /\ stream_read(mod_stream, 0, 16).bytes # MAGIC_STR) =>
        /\ modpc = "error" /\ mod_st = "RuntimeError"
        /\ mod_self.meta = mod_before.meta
        /\ mod_self.chips = mod_before.chips
        /\ mod_self.master_volume = mod_before.master_volume
        /\ mod_self.compat_flags = mod_before.compat_flags
        /\ mod_self.subsongs = mod_before.subsongs
        /\ mod_self.patchbay = mod_before.patchbay
        /\ mod_self.instruments = mod_before.instruments
        /\ mod_self.patterns = mod_before.patterns
        /\ mod_self.wavetables = mod_before.wavetables
        /\ mod_self.samples = mod_before.samples

\* a stream with a wrong last byte of the signature was loaded into a module
\* that an earlier load had filled
C14_Witness ==
    /\ mod_loads = 2 /\ modpc = "error" /\ mod_clean = FALSE
    /\ Len(mod_stream) > 16
    /\ SubSeq(mod_stream, 1, 15) = SubSeq(MAGIC_STR, 1, 15)
    /\ mod_stream[16] # MAGIC_STR[16]
    /\ Len(mod_before.instruments) = 1 /\ Len(mod_before.chips) = 2
    /\ Len(mod_before.patchbay) = 1
    /\ mod_self = mod_before

\* a stream shorter than the signature fails in the same way
ShortSignatureRaises ==
    /\ mod_loads = 1 /\ Len(mod_stream) = 15 /\ mod_st = "RuntimeError"
    /\ mod_self = FurnaceModule

\* the subsong has n order lists, n effect column counts and n channel
\* display entries
subsong_width_is(sub, n) ==
    /\ Cardinality(DOMAIN sub.order) = n
    /\ Len(sub.effect_columns) = n
    /\ Len(sub.channel_display) = n

\* C15: in every state of a FurnaceModule that is newly constructed or has
\* come out of a successful load, the order map, the effect_columns list and
\* the channel_display list of every subsong each have exactly
\* get_num_channels() entries.
C15_SubsongWidths ==
    modpc \in {"new", "done"} =>
        \A k \in 1..Len(mod_self.subsongs) :
            subsong_width_is(mod_self.subsongs[k], get_num_channels(mod_self))

\* a single load into a new module leaves every subsong as wide as the chips
FirstLoadWidthsAgree ==
    (modpc = "done" /\ mod_loads = 1) =>
        \A k \in 1..Len(mod_self.subsongs) :
            subsong_width_is(mod_self.subsongs[k], get_num_channels(mod_self))

\* a new module has no chip and a subsong that is ten channels wide
NewModuleIsTenWide ==
    /\ modpc = "new" /\ get_num_channels(mod_self) = 0
    /\ subsong_width_is(mod_self.subsongs[1], default_channels)

\* a subsong of an earlier load is kept by a load of other chips
StaleSubsongWidth ==
    /\ modpc = "done" /\ mod_loads = 2 /\ mod_clean
    /\ Len(mod_self.subsongs) = 3
    /\ subsong_width_is(mod_self.subsongs[1], get_num_channels(mod_self))
    /\ ~subsong_width_is(mod_self.subsongs[2], get_num_channels(mod_self))

\* the keys (channel, index, subsong) of the patterns of the module
pattern_keys(m) ==
    { <<m.patterns[k].channel, m.patterns[k].index, m.patterns[k].subsong>> :
        k \in 1..Len(m.patterns) }

\* C16: after a successful load into a new module, module.patterns holds at
\* most one pattern for each key (channel, index, subsong), also when two
\* pointers of the table lead to blocks with the same key, and get_pattern
\* returns the only pattern with the key.
C16_OnePatternPerKey ==
    (modpc = "done" /\ mod_loads = 1) =>
        \A key \in pattern_keys(mod_self) :
            /\ Len(patterns_with(mod_self, key[1], key[2], key[3])) = 1
            /\ get_pattern(mod_self, key[1], key[2], key[3])
                   = patterns_with(mod_self, key[1], key[2], key[3])

\* get_pattern returns the first pattern of the list that has the key, and
\* None when no pattern has it
GetPatternIsFirstMatch ==
    (modpc = "done" /\ mod_loads = 1) =>
        \A c \in 0..1, i \in 0..1 :
            IF <<c, i, 0>> \in pattern_keys(mod_self)
            THEN \E k \in 1..Len(mod_self.patterns) :
                    /\ get_pattern(mod_self, c, i, 0) = <<mod_self.patterns[k]>>
                    /\ \A j \in 1..(k - 1) :
                        <<mod_self.patterns[j].channel, mod_self.patterns[j].index,
                          mod_self.patterns[j].subsong>> # <<c, i, 0>>
            ELSE get_pattern(mod_self, c, i, 0) = <<>>

\* two pointers led to blocks with the key (0, 0, 0): both patterns are in
\* the list and they differ
TwoPatternsOneKey ==
    /\ modpc = "done" /\ mod_loads = 1
    /\ Len(mod_self.patterns) = 2
    /\ Len(patterns_with(mod_self, 0, 0, 0)) = 2
    /\ mod_self.patterns[1] # mod_self.patterns[2]
    /\ get_pattern(mod_self, 0, 0, 0) = <<mod_self.patterns[1]>>

\* C19: load_from_stream(A) and then load_from_stream(B) on one module, both
\* successful, leave instruments, wavetables, samples, patterns, subsongs
\* (with their grooves), patchbay and chip list equal to those of a new
\* module into which B alone has been loaded.
C19_LoadOwnsFreshGraph ==
    (modpc = "done" /\ mod_loads >= 2 /\ mod_clean) =>
        /\ mod_self.instruments = mod_new.instruments
        /\ mod_self.wavetables = mod_new.wavetables
        /\ mod_self.samples = mod_new.samples
        /\ mod_self.patterns = mod_new.patterns
        /\ mod_self.subsongs = mod_new.subsongs
        /\ mod_self.patchbay = mod_new.patchbay
        /\ mod_self.chips = mod_new.chips

\* what a load does replace: the chip list, the patchbay, and the order
\* lists and the speed pattern of the first subsong
LoadReplacesClearedParts ==
    (modpc = "done" /\ mod_loads >= 2 /\ mod_clean) =>
        /\ mod_self.chips = mod_new.chips
        /\ mod_self.patchbay = mod_new.patchbay
        /\ mod_self.subsongs[1].order = mod_new.subsongs[1].order
        /\ mod_self.subsongs[1].speed_pattern = mod_new.subsongs[1].speed_pattern

\* the entities of the first load are still in the lists after the second
EarlierLoadRemains ==
    /\ modpc = "done" /\ mod_loads = 2 /\ mod_clean
    /\ Len(mod_new.instruments) = 0 /\ Len(mod_self.instruments) > 0
    /\ Len(mod_new.patterns) = 0 /\ Len(mod_self.patterns) > 0
    /\ Len(mod_new.subsongs) = 1 /\ Len(mod_self.subsongs) > 1

\* --- the feature codes of a decoded instrument ---

\* the codes of the features of an instrument, in list order
feature_codes(ins) == [i \in 1..Len(ins.features) |-> ins.features[i].code]

\* no code other than the operator macro codes is at two places of codes
codes_once(codes) ==
    \A i, j \in 1..Len(codes) :
        (i # j /\ codes[i] = codes[j]) => codes[i] \in {O1, O2, O3, O4}

\* C17: after a successful decode of a featural instrument, whatever its
\* sequence of feature blocks, each feature code other than O1..O4 occurs at
\* most once in instrument.features.
C17_FeatureCodesOnce ==
    (fpc # "start" /\ fins_first.st = "ok") => codes_once(feature_codes(fins_first))

\* two name blocks were decoded and both names are features of the instrument
TwoNameFeatures ==
    /\ fpc = "first" /\ fins_first.st = "ok"
    /\ feature_codes(fins_first) = <<NA, NA>>
    /\ fins_first.features[1] # fins_first.features[2]

\* the legacy path: the features that a successful __load_format_0_embed
\* appends have each code other than O1..O4 once
LegacyFeatureCodesOnce ==
    (mpc # "start" /\ mac_old.st = "done") =>
        codes_once(format_0_feature_codes(mac_authored.version))

\* before the sample map (version 67) the legacy path appends each code once
LegacyCodesOnceBefore67 ==
    (mpc # "start" /\ mac_old.st = "done" /\ mac_authored.version < 67) =>
        codes_once(format_0_feature_codes(mac_authored.version))

\* a legacy instrument of version 84 was decoded: 'SM' is the code of its
\* fifth and of its eighth feature
LegacySampleFeatureTwice ==
    /\ mpc = "legacy" /\ mac_old.st = "done" /\ mac_authored.version = 84
    /\ format_0_feature_codes(84)[5] = SM /\ format_0_feature_codes(84)[8] = SM

\* --- the feature blocks of a stream, found by their lengths alone ---

\* the instrument data of a source: what follows b'FINS', or the bytes of
\* the b'INS2' block
ins_data_in(src, form) ==
    IF form = "FORMAT_1_FILE" THEN SubSeq(src, 5, Len(src))
    ELSE stream_read(src, 8, size_of(read_int(src, 4).val)).bytes

\* the offset in the data d of its feature block number n + 1: after the
\* version, the type, and n blocks of a code, a length and a body
RECURSIVE block_start(_, _)
block_start(d, n) ==
    IF n = 0 THEN 4
    ELSE Min(Len(d),
             block_start(d, n - 1) + 4
                 + read_short(d, Min(Len(d), block_start(d, n - 1) + 2)).val)

\* the 2-byte code of block n + 1 of d
block_code(d, n) == stream_read(d, block_start(d, n), 2).bytes

\* block n + 1 of d has a code that is neither b'EN' nor in the dispatch
\* table, and the n blocks before it have codes of the table
unknown_after(d, n) ==
    /\ \A k \in 0..(n - 1) : block_code(d, k) \in map_to_fn_codes
    /\ Len(block_code(d, n)) = 2
    /\ block_code(d, n) \notin map_to_fn_codes \cup {EN}

\* C18: when the featural loop comes to a 2-byte code that is neither "EN"
\* nor a code of the dispatch table, the decode of the instrument fails with
\* an error: the block is not skipped, no feature is appended for it, and
\* no block after it is decoded.
C18_UnknownCodeIsFatal ==
    fpc # "start" =>
        \A n \in 0..MaxFeatures :
            unknown_after(ins_data_in(fins_src, fins_form), n) =>
                /\ fins_first.st # "ok"
                /\ Len(fins_first.features) <= n
                /\ Len(fins_first.features) = n =>
                       fins_first.st \in {"KeyError", "struct.error"}

\* a block of the code b'ZZ' came first and a name block after it: the
\* decode raised KeyError and the instrument has no feature
C18_Witness ==
    /\ fpc = "first" /\ fins_form = "FORMAT_1_FILE"
    /\ fins_src = fins_file(U16(200) \o U16(1)
                            \o feature_block(<<90, 90>>, <<1, 0>>)
                            \o feature_block(NA, <<97, 0>>) \o EN)
    /\ unknown_after(ins_data_in(fins_src, fins_form), 0)
    /\ fins_first.st = "KeyError"
    /\ fins_first.features = <<>>

\* a name block came first and the block of the code b'ZZ' after it: the
\* name is the only feature
UnknownCodeKeepsEarlier ==
    /\ fpc = "first" /\ fins_first.st = "KeyError"
    /\ unknown_after(ins_data_in(fins_src, fins_form), 1)
    /\ feature_codes(fins_first) = <<NA>>

\* ------------------------------------------------------------------------
\* NoteSpec: one sparse block whose first row has every note byte in turn
\* ------------------------------------------------------------------------

\* the bytes after the control byte c of a first row whose note byte is n:
\* the note when bit 0 is set, the instrument 7 when bit 1 is set, the
\* volume 9 when bit 2 is set
note_row_fields(c, n) ==
    (IF BitSet(c, 1) THEN <<n>> ELSE <<>>)
    \o (IF BitSet(c, 2) THEN <<7>> ELSE <<>>)
    \o (IF BitSet(c, 4) THEN <<9>> ELSE <<>>)

\* sparse blocks of subsong 0, channel 0, index 1, no name: one row with the
\* control byte c (note, note and instrument, note and volume, or no note)
\* and the end marker
NoteBlocks ==
    { <<0, 0>> \o U16(1) \o <<0>> \o <<c>> \o note_row_fields(c, n) \o <<255>> :
        c \in {0, 1, 2, 3, 5}, n \in 0..255 }

NoteInit ==
    /\ OthersIdle("pat")
    /\ version = 157
    /\ subsongs = PatSubsongs(version)
    /\ patr_blk \in NoteBlocks
    /\ pos = 0
    /\ new_patr = FurnacePattern(0, 0, 0, <<>>, <<>>)
    /\ num_rows = 0 /\ row_idx = 0 /\ char = -1
    /\ patterns = <<>>
    /\ ppc = "start"

NoteNext == PatBegin \/ PatSparseRecord \/ PatSparseEnd

NoteSpec == NoteInit /\ [][NoteNext]_vars

\* the first row of the block has been decoded
FirstRowDecoded == ppc \in {"sparse", "fill", "done"} /\ Len(new_patr.data) >= 1

\* C20: a present note byte n of a sparse row decodes, for every n in
\* 0..255 and without error, to OFF for 180, OFF_REL for 181 and REL for
\* 182, each with octave 0, and for any other n to the note n mod 12, the
\* remainder 0 being C (12), with octave floor(n / 12) - 5; an absent note
\* decodes to the none note with octave 0.
C20_NoteByteDecoded ==
    /\ ppc \notin {"error", "hang"}
    /\ FirstRowDecoded =>
        IF BitSet(patr_blk[6], 1)
        THEN /\ patr_blk[7] = 180 =>
                 new_patr.data[1].note = 100 /\ new_patr.data[1].octave = 0
             /\ patr_blk[7] = 181 =>
                 new_patr.data[1].note = 101 /\ new_patr.data[1].octave = 0
             /\ patr_blk[7] = 182 =>
                 new_patr.data[1].note = 102 /\ new_patr.data[1].octave = 0
             /\ patr_blk[7] \notin {180, 181, 182} =>
                 /\ new_patr.data[1].note =
                        (IF patr_blk[7] % 12 = 0 THEN 12 ELSE patr_blk[7] % 12)
                 /\ new_patr.data[1].octave = (patr_blk[7] \div 12) - 5
        ELSE new_patr.data[1].note = 0 /\ new_patr.data[1].octave = 0

\* the note byte 0 was decoded from a row with note and instrument: C at
\* octave -5, and the pattern has been appended
C20_Witness ==
    /\ ppc = "done" /\ Len(patterns) = 1
    /\ patr_blk[6] = 3 /\ patr_blk[7] = 0
    /\ patterns[1].data[1].note = Note_C /\ patterns[1].data[1].octave = -5
    /\ patterns[1].data[1].instrument = 7

\* the reserved bytes and the last byte below and above them
ReleaseNoteDecoded ==
    /\ FirstRowDecoded /\ patr_blk[6] = 1 /\ patr_blk[7] = 182
    /\ new_patr.data[1].note = Note_REL /\ new_patr.data[1].octave = 0

NoteBelowOffDecoded ==
    /\ FirstRowDecoded /\ patr_blk[6] = 1 /\ patr_blk[7] = 179
    /\ new_patr.data[1].note = 11 /\ new_patr.data[1].octave = 9

NoteAboveReleaseDecoded ==
    /\ FirstRowDecoded /\ patr_blk[6] = 5 /\ patr_blk[7] = 183
    /\ new_patr.data[1].note = 3 /\ new_patr.data[1].octave = 10

HighestNoteDecoded ==
    /\ FirstRowDecoded /\ patr_blk[6] = 1 /\ patr_blk[7] = 255
    /\ new_patr.data[1].note = 3 /\ new_patr.data[1].octave = 16

AbsentNoteDecoded ==
    /\ FirstRowDecoded /\ patr_blk[6] = 2
    /\ new_patr.data[1].note = Note_none /\ new_patr.data[1].octave = 0
    /\ new_patr.data[1].instrument = 7

\* ------------------------------------------------------------------------
\* C21: the fields of a fixed-width row
\* ------------------------------------------------------------------------

\* a 16-bit field read as a signed integer
signed16(x) == IF x >= 32768 THEN x - 65536 ELSE x

\* the 16-bit field number f (from 0) of the fixed-width row number k (from
\* 1) of the block, whose rows have e effect columns and follow the four
\* header fields
old_row_field(blk, e, k, f) ==
    read_short(blk, 8 + (k - 1) * (8 + 4 * e) + 2 * f).val

\* the effect columns of the channel of the pattern being decoded
old_effect_columns ==
    subsongs[new_patr.subsong + 1].effect_columns[new_patr.channel + 1]

\* the rows decoded so far have the (command, value) pairs of the stream
OldRowEffectsRead ==
    (version < 157 /\ ppc \in {"old_rows", "done", "hang", "error"}) =>
        \A k \in 1..Len(new_patr.data) :
            /\ Len(new_patr.data[k].effects) = old_effect_columns
            /\ \A i \in 1..old_effect_columns :
                new_patr.data[k].effects[i] =
                    <<old_row_field(patr_blk, old_effect_columns, k, 2 + 2 * i),
                      old_row_field(patr_blk, old_effect_columns, k, 3 + 2 * i)>>

\* C21: in the fixed-width row encoding the octave of a decoded row is the
\* stored 16-bit octave field read as a signed integer, plus one when the
\* decoded note is C (12) and plus zero for every other note; each row has
\* exactly effect_columns (command, value) pairs read from the stream.
C21_OldRowOctaveSigned ==
    /\ OldRowEffectsRead
    /\ (version < 157 /\ ppc \in {"old_rows", "done", "hang", "error"}) =>
        \A k \in 1..Len(new_patr.data) :
            new_patr.data[k].octave =
                signed16(old_row_field(patr_blk, old_effect_columns, k, 1))
                + (IF new_patr.data[k].note = Note_C THEN 1 ELSE 0)

\* what the code does: the octave field is read unsigned
OldRowOctaveUnsigned ==
    (version < 157 /\ ppc \in {"old_rows", "done", "hang", "error"}) =>
        \A k \in 1..Len(new_patr.data) :
            new_patr.data[k].octave =
                old_row_field(patr_blk, old_effect_columns, k, 1)
                + (IF new_patr.data[k].note = Note_C THEN 1 ELSE 0)

\* a row B with the octave field 0xFFFF was decoded with the octave 65535
OctaveMinusOneReadUnsigned ==
    /\ version < 157 /\ ppc = "old_rows" /\ Len(new_patr.data) = 1
    /\ old_row_field(patr_blk, old_effect_columns, 1, 0) = 11
    /\ old_row_field(patr_blk, old_effect_columns, 1, 1) = 65535
    /\ new_patr.data[1].octave = 65535

\* a row C with the octave field 3 was decoded with the octave 4
OctaveOfCRaised ==
    /\ version < 157 /\ ppc = "old_rows" /\ Len(new_patr.data) = 1
    /\ new_patr.data[1].note = Note_C
    /\ old_row_field(patr_blk, old_effect_columns, 1, 1) = 3
    /\ new_patr.data[1].octave = 4

\* ------------------------------------------------------------------------
\* C22: the markers of a decoded macro
\* ------------------------------------------------------------------------

\* the integer values of macro data, in order
values_of(data) == SelectSeq(data, LAMBDA x : is_int(x))

\* the number of places of data that hold the marker item
marker_count(data, item) ==
    Cardinality({i \in 1..Len(data) : data[i] = item})

\* the number of integer values of data before its marker item
values_before(data, item) ==
    Cardinality({i \in 1..Len(data) :
                    /\ is_int(data[i])
                    /\ \E j \in (i + 1)..Len(data) : data[j] = item})

\* the markers of data are those of a macro stored with the loop position p
\* and the release position r (-1 for the none sentinel): one LOOP marker
\* iff p is stored, one RELEASE marker iff r is stored, p values before
\* LOOP, and r values before RELEASE when both are stored
markers_as_stored(data, p, r, L) ==
    /\ marker_count(data, MacroItem_LOOP) = (IF p # -1 THEN 1 ELSE 0)
    /\ marker_count(data, MacroItem_RELEASE) = (IF r # -1 THEN 1 ELSE 0)
    /\ (p # -1 /\ p <= L) => values_before(data, MacroItem_LOOP) = p
    /\ (p # -1 /\ r # -1 /\ r <= L) => values_before(data, MacroItem_RELEASE) = r

\* C22: a macro stored with L values, loop position p and release position
\* r decodes to data that, with the markers removed, is the L stored values
\* in order, with exactly one LOOP marker iff p is not the none sentinel and
\* exactly one RELEASE marker iff r is not; LOOP is inserted first and
\* RELEASE then at its own position r, so that with both markers r values
\* precede RELEASE (positions within the sequence).
C22_MarkersAtStoredPositions ==
    (mpc = "done" /\ mac_new.st = "done") =>
        /\ values_of(mac_new.macros[1].data)
               = [i \in 1..Len(mac_authored.vals) |-> IntVal(mac_authored.vals[i])]
        /\ markers_as_stored(mac_new.macros[1].data, mac_authored.loop,
                             mac_authored.rel, Len(mac_authored.vals))

\* the same for the markers of the legacy decode
LegacyMarkersAtStoredPositions ==
    (mpc # "start" /\ mac_old.st = "done") =>
        markers_as_stored(mac_old.macros[mac_authored.kind + 1].data,
                          mac_authored.loop, mac_authored.rel,
                          Len(mac_authored.vals))

\* what the code does: RELEASE goes to the index r of the list that holds
\* LOOP, so a release stored after the loop has r - 1 values before it
ReleaseAtListIndex ==
    (mpc = "done" /\ mac_new.st = "done" /\ mac_authored.rel # -1
        /\ mac_authored.rel <= Len(mac_authored.vals)) =>
        values_before(mac_new.macros[1].data, MacroItem_RELEASE) =
            (IF mac_authored.loop # -1 /\ mac_authored.loop < mac_authored.rel
             THEN mac_authored.rel - 1 ELSE mac_authored.rel)

\* the values, the marker counts and the place of LOOP are as stored
ValuesAndLoopAsStored ==
    (mpc = "done" /\ mac_new.st = "done") =>
        /\ values_of(mac_new.macros[1].data)
               = [i \in 1..Len(mac_authored.vals) |-> IntVal(mac_authored.vals[i])]
        /\ marker_count(mac_new.macros[1].data, MacroItem_LOOP)
               = (IF mac_authored.loop # -1 THEN 1 ELSE 0)
        /\ marker_count(mac_new.macros[1].data, MacroItem_RELEASE)
               = (IF mac_authored.rel # -1 THEN 1 ELSE 0)
        /\ (mac_authored.loop # -1 /\ mac_authored.loop <= Len(mac_authored.vals))
               => values_before(mac_new.macros[1].data, MacroItem_LOOP)
                      = mac_authored.loop

\* loop 0 and release 2 on two values: one value is before RELEASE
ReleaseOneValueEarly ==
    /\ mpc = "done" /\ mac_new.st = "done"
    /\ mac_authored.vals = <<5, 5>>
    /\ mac_authored.loop = 0 /\ mac_authored.rel = 2
    /\ mac_new.macros[1].data
           = <<MacroItem_LOOP, IntVal(5), MacroItem_RELEASE, IntVal(5)>>

\* ------------------------------------------------------------------------
\* C23: the pointer lists of the featural layout
\* ------------------------------------------------------------------------

\* the number of bytes of the block b that __common_pointers_block has read
\* when it returns: the count, num_entries keys, and one pointer for every
\* key of the dictionary
common_pointers_block_read(b) == 1 + b[1] + 4 * Len(pointer_keys(b, b[1]))

\* the body of the feature block number n + 1 of the data d
block_body(d, n) ==
    stream_read(d, block_start(d, n) + 4,
                read_short(d, block_start(d, n) + 2).val).bytes

\* the pointer list decoded from the body b is as stored: 1 + 5n bytes read,
\* and the k-th pointer stored belongs to the k-th index stored
pointer_list_as_stored(b, val) ==
    /\ common_pointers_block_read(b) = 1 + 5 * b[1]
    /\ \A k \in 1..b[1] :
        <<b[1 + k], read_int(b, 1 + b[1] + 4 * (k - 1)).val>> \in val

\* C23: a sample list or wave list block with the count byte n is decoded
\* by reading n index bytes and then n 32-bit pointers (1 + 5n bytes), and
\* the k-th pointer read belongs to the k-th index read, also when an index
\* occurs more than once.
C23_PointersFollowIndexes ==
    (fpc # "start" /\ fins_first.st = "ok") =>
        \A i \in 1..Len(fins_first.features) :
            fins_first.features[i].code \in {SL, WL} =>
                pointer_list_as_stored(
                    block_body(ins_data_in(fins_src, fins_form), i - 1),
                    fins_first.features[i].val)

\* the indexes stored in the body b are all different
indexes_distinct(b) ==
    \A j, k \in 1..b[1] : j # k => b[1 + j] # b[1 + k]

\* with indexes that are all different the list is decoded as stored
DistinctIndexesAsStored ==
    (fpc # "start" /\ fins_first.st = "ok") =>
        \A i \in 1..Len(fins_first.features) :
            (/\ fins_first.features[i].code \in {SL, WL}
             /\ indexes_distinct(block_body(ins_data_in(fins_src, fins_form), i - 1)))
                => pointer_list_as_stored(
                       block_body(ins_data_in(fins_src, fins_form), i - 1),
                       fins_first.features[i].val)

\* the indexes 2, 0, 2 with the pointers 16, 300, 7: two pointers are read
\* and the third is left in the block
RepeatedIndexReadsFewer ==
    /\ fpc = "first" /\ fins_first.st = "ok"
    /\ Len(fins_first.features) = 1
    /\ fins_first.features[1].code = SL
    /\ block_body(ins_data_in(fins_src, fins_form), 0)
           = <<3, 2, 0, 2>> \o S32(16) \o S32(300) \o S32(7)
    /\ fins_first.features[1].val = {<<2, IntVal(16)>>, <<0, IntVal(300)>>}
    /\ common_pointers_block_read(block_body(ins_data_in(fins_src, fins_form), 0)) = 12

\* ------------------------------------------------------------------------
\* ArpSpec: a legacy instrument whose arpeggio macro has a stored mode byte
\* ------------------------------------------------------------------------

\* versions below 112 and the first version without the fixup
ArpVersions == {44, 111, 112}

\* a small value, and a value stored with bit 30 set
ArpValues == {5, -1}

\* arpeggio macros with the mode byte 0, 1 (fixed) or 2
ArpMacros ==
    { [version |-> v, kind |-> MacroCode_ARP, name |-> <<73>>, sized |-> TRUE,
       vals |-> x, loop |-> sh[1], rel |-> sh[2], open |-> FALSE,
       mode |-> 0, speed |-> 1, delay |-> 0, arp_mode |-> am] :
        v \in ArpVersions, x \in SeqsUpTo(ArpValues, MaxMacroLen),
        sh \in {<<-1, -1>>, <<0, -1>>, <<-1, 1>>, <<1, 0>>, <<2, -1>>},
        am \in {0, 1, 2} }

ArpInit ==
    /\ OthersIdle("mac")
    /\ mac_authored \in ArpMacros
    /\ ins_stream = encode_format_0(mac_authored)
    /\ ma_stream = encode_ma_block(mac_authored)
    /\ mac_old = [st |-> "idle"] /\ mac_new = [st |-> "idle"]
    /\ mpc = "start"

ArpNext == MacLoadLegacy \/ MacLoadFeatural

ArpSpec == ArpInit /\ [][ArpNext]_vars

\* the values of the authored macro as read_int reads them
stored_values(a) == [i \in 1..Len(a.vals) |-> int_at(S32(a.vals[i]), 0)]

\* the legacy decode of a version below 112 has returned
ArpDecoded ==
    mpc # "start" /\ mac_old.st = "done" /\ mac_authored.version < 112

\* C24: in the legacy decode of an instrument version below 112, when the
\* stored mode byte of the arpeggio macro is nonzero every integer value of
\* the decoded ARP macro is the stored value XOR 0x40000000, the markers are
\* untouched and the mode of the macro is 0; when the stored mode is zero no
\* value is changed.
C24_ArpXorFixup ==
    ArpDecoded =>
        /\ mac_old.macros[2].mode = 0
        /\ marker_count(mac_old.macros[2].data, MacroItem_LOOP)
               = (IF mac_authored.loop # -1 THEN 1 ELSE 0)
        /\ marker_count(mac_old.macros[2].data, MacroItem_RELEASE)
               = (IF mac_authored.rel # -1 THEN 1 ELSE 0)
        /\ values_of(mac_old.macros[2].data) =
               (IF mac_authored.arp_mode # 0
                THEN xor_bit30_ints(stored_values(mac_authored))
                ELSE stored_values(mac_authored))

\* what the code does: the mode byte 1 sets bit 30 of every value (and may
\* add a value 0), every other mode byte leaves the values as stored
ArpModeOneSetsBit30 ==
    ArpDecoded =>
        /\ mac_old.macros[2].mode = 0
        /\ mac_authored.arp_mode # 1 =>
               values_of(mac_old.macros[2].data) = stored_values(mac_authored)
        /\ mac_authored.arp_mode = 1 =>
               \A i \in 1..Len(mac_authored.vals) :
                   values_of(mac_old.macros[2].data)[i]
                       = int_or_bit30(stored_values(mac_authored)[i])

\* the mode byte 2: the value 5 is decoded as 5
ArpModeTwoUnchanged ==
    /\ ArpDecoded /\ mac_authored.arp_mode = 2 /\ mac_authored.vals = <<5>>
    /\ mac_authored.loop = -1 /\ mac_authored.rel = -1
    /\ mac_old.macros[2].data = <<IntVal(5)>>

\* the mode byte 1 and a value stored with bit 30 set: the bit stays set
ArpBit30StaysSet ==
    /\ ArpDecoded /\ mac_authored.arp_mode = 1 /\ mac_authored.vals = <<-1>>
    /\ mac_authored.loop = -1 /\ mac_authored.rel = -1
    /\ mac_old.macros[2].data = <<int_at(<<255, 255, 255, 255>>, 0)>>

\* ---------------------------------------------------------------------
\* The speed pattern and the grooves of the INFO block (version >= 139),
\* one record at a time.

\* a record as it is stored: the length byte n, n entries, the padding to 16
\* entries; a record with more than 16 entries has no padding
groove_record(n) ==
    <<n>> \o [i \in 1..n |-> i] \o Zeros(IF n > 16 THEN 0 ELSE 16 - n)

GrooveLengths == {0, 3, 16, 17}

\* the bytes after the last record of the block
GrooveTails == {<<>>, <<9, 9, 9>>}

\* the speed pattern, the groove list of none, one or two grooves, a tail
GrvBlocks ==
    { groove_record(a) \o <<0>> \o t : a \in GrooveLengths, t \in GrooveTails }
    \cup { groove_record(a) \o <<1>> \o groove_record(b) \o t :
             a \in {3, 17}, b \in GrooveLengths, t \in GrooveTails }
    \cup { groove_record(a) \o <<2>> \o groove_record(b) \o groove_record(c) \o t :
             a \in {3}, b \in GrooveLengths, c \in GrooveLengths,
             t \in GrooveTails }

GrvInit ==
    /\ OthersIdle("grv")
    /\ grv_blk \in GrvBlocks
    /\ grv_r = Step("ok", FurnaceModule, 0)
    /\ grv_left = 0
    /\ grv_prev = 0
    /\ grv_kind = ""
    /\ grvpc = "speed"

\* the speed pattern record of the first subsong
GrvSpeedPattern ==
    /\ grvpc = "speed"
    /\ grv_r' = info_speed_pattern(grv_r, grv_blk)
    /\ grv_prev' = grv_r.p
    /\ grv_kind' = "speed"
    /\ grvpc' = IF grv_r'.st = "ok" THEN "count" ELSE "error"
    /\ UNCHANGED <<grv_blk, grv_left>>
    /\ UNCHANGED nonGrvVars

\* len_groove_list = read_byte(info_blk)
GrvGrooveCount ==
    /\ grvpc = "count"
    /\ grv_r' = groove_list_length(grv_r, grv_blk)
    /\ grv_left' = IF grv_r'.st = "ok" THEN grv_blk[grv_r.p + 1] ELSE 0
    /\ grvpc' = IF grv_r'.st # "ok" THEN "error"
                ELSE IF grv_left' = 0 THEN "done" ELSE "groove"
    /\ grv_kind' = "count"
    /\ UNCHANGED <<grv_blk, grv_prev>>
    /\ UNCHANGED nonGrvVars

\* one turn of the loop over the grooves
GrvGroove ==
    /\ grvpc = "groove"
    /\ grv_r' = groove(grv_r, grv_blk)
    /\ grv_left' = grv_left - 1
    /\ grv_prev' = grv_r.p
    /\ grv_kind' = "groove"
    /\ grvpc' = IF grv_r'.st # "ok" THEN "error"
                ELSE IF grv_left' = 0 THEN "done" ELSE "groove"
    /\ UNCHANGED grv_blk
    /\ UNCHANGED nonGrvVars

GrvNext == GrvSpeedPattern \/ GrvGrooveCount \/ GrvGroove

GrvSpec == GrvInit /\ [][GrvNext]_vars

\* the length byte of the last record; 255 when the block ended before it
record_length == IF grv_prev < Len(grv_blk) THEN grv_blk[grv_prev + 1] ELSE 255

\* the entries decoded from the last record
record_entries ==
    IF grv_kind = "speed" THEN grv_r.m.subsongs[1].speed_pattern
    ELSE grv_r.m.subsongs[1].grooves[Len(grv_r.m.subsongs[1].grooves)]

\* the last record took 17 bytes and gave as many entries as its length byte
\* says, or it was refused
record_of_17(kind) ==
    grv_kind = kind /\ grv_prev < Len(grv_blk) =>
        IF record_length > 16 THEN grv_r.st # "ok"
        ELSE /\ grv_r.st = "ok"
             /\ grv_r.p = grv_prev + 17
             /\ Len(record_entries) = record_length

\* C25: for version >= 139 the speed pattern record and every groove record
\* take exactly 17 bytes and give n <= 16 entries for a length byte n, and a
\* length byte above 16 makes the decode fail, for the speed pattern and for
\* a groove alike.
C25_RecordsOf17Bytes == record_of_17("speed") /\ record_of_17("groove")

\* the speed pattern record does take 17 bytes and refuses a length above 16
SpeedPatternOf17Bytes == record_of_17("speed")

\* a groove with a length byte of at most 16 takes 17 bytes
GrooveUpTo16Of17Bytes ==
    grv_kind = "groove" /\ record_length <= 16 => record_of_17("groove")

\* a groove with a length byte above 16 is decoded without an error: it has
\* more than 16 entries and the rest of the block is consumed
LongGrooveAccepted ==
    /\ grv_kind = "groove" /\ record_length = 17
    /\ grv_r.st = "ok"
    /\ Len(record_entries) = record_length
    /\ grv_r.p = Len(grv_blk)
    /\ grv_r.p > grv_prev + 17

\* a speed pattern with a length byte above 16 is refused
LongSpeedPatternRefused ==
    grv_kind = "speed" /\ record_length = 17 /\ grv_r.st = "ValueError"

\* ---------------------------------------------------------------------
\* The feature loop of __load_format_1, one feature at a time.

\* a feature block whose body is longer than what its decoder reads; a
\* block whose declared length is more than what is left of the stream
\* comes last
FlBlocks ==
    { feature_block(NA, <<97, 0>>), feature_block(NA, <<97>>),
      feature_block(SU, <<1>>), feature_block(SU, <<1, 7, 7>>),
      feature_block(PN, <<3, 69, 78>>), feature_block(X1, S32(5)),
      feature_block(X1, <<5, 0>>),
      feature_block(WL, <<1, 4>> \o S32(70000)),
      feature_block(LD, <<1, 32, 5, 80, 5, 192, 1>>),
      feature_block(SN, <<18, 52, 4, 127, 191>>) }

FlTails == {EN, <<>>, EN \o feature_block(SU, <<1>>), <<78>>, SU \o <<1>>,
            SU \o U16(5) \o <<1>>}

FlStreams ==
    { U16(200) \o U16(1) \o Concat(blocks) \o t :
        blocks \in SeqsUpTo(FlBlocks, MaxFeatures), t \in FlTails }

\* self.meta.version, read from the head of the stream
fl_version == read_short(fl_stream, 0).val

\* after meta.version and meta.type are read and self.features is cleared
FlInit ==
    /\ OthersIdle("fl")
    /\ fl_stream \in FlStreams
    /\ fl_pos = 4
    /\ fl_prev = 4
    /\ fl_features = <<>>
    /\ flpc = "loop"

\* __read_format_1_feature returns a feature, which is appended
FlFeature ==
    /\ flpc = "loop"
    /\ read_format_1_feature(fl_stream, fl_pos, fl_version).st = "feature"
    /\ read_format_1_feature(fl_stream, fl_pos, fl_version).feat.st = "ok"
    /\ fl_features' =
           Append(fl_features, read_format_1_feature(fl_stream, fl_pos, fl_version).feat)
    /\ fl_prev' = fl_pos
    /\ fl_pos' = read_format_1_feature(fl_stream, fl_pos, fl_version).pos
    /\ UNCHANGED <<fl_stream, flpc>>
    /\ UNCHANGED nonFlVars

\* __read_format_1_feature returns None: the loop is left
FlEnd ==
    /\ flpc = "loop"
    /\ read_format_1_feature(fl_stream, fl_pos, fl_version).st = "end"
    /\ fl_prev' = fl_pos
    /\ fl_pos' = read_format_1_feature(fl_stream, fl_pos, fl_version).pos
    /\ flpc' = "done"
    /\ UNCHANGED <<fl_stream, fl_features>>
    /\ UNCHANGED nonFlVars

\* __read_format_1_feature raises
FlRaise ==
    /\ flpc = "loop"
    /\ read_format_1_feature(fl_stream, fl_pos, fl_version).st # "end"
    /\ read_format_1_feature(fl_stream, fl_pos, fl_version).st = "feature"
           => read_format_1_feature(fl_stream, fl_pos, fl_version).feat.st # "ok"
    /\ fl_prev' = fl_pos
    /\ fl_pos' = read_format_1_feature(fl_stream, fl_pos, fl_version).pos
    /\ flpc' = IF read_format_1_feature(fl_stream, fl_pos, fl_version).st = "feature"
               THEN read_format_1_feature(fl_stream, fl_pos, fl_version).feat.st
               ELSE read_format_1_feature(fl_stream, fl_pos, fl_version).st
    /\ UNCHANGED <<fl_stream, fl_features>>
    /\ UNCHANGED nonFlVars

FlNext == FlFeature \/ FlEnd \/ FlRaise

FlSpec == FlInit /\ [][FlNext]_vars

\* the n-th feature block of the stream is there in full
block_whole(d, n) ==
    /\ block_start(d, n - 1) + 4 <= Len(d)
    /\ block_start(d, n - 1) + 4
           + read_short(d, block_start(d, n - 1) + 2).val <= Len(d)

\* the blocks of the stream before its first b'EN' or its end
RECURSIVE blocks_before_end(_, _)
blocks_before_end(d, n) ==
    IF block_code(d, n) \in {EN, <<>>} \/ n > MaxFeatures THEN n
    ELSE blocks_before_end(d, n + 1)

\* the loop has ended at the first b'EN' or at the end of the stream, with
\* one feature for each block before it
loop_ended_at_first_end ==
    flpc = "done" =>
        /\ Len(fl_features) = blocks_before_end(fl_stream, 0)
        /\ block_code(fl_stream, Len(fl_features)) \in {EN, <<>>}
        /\ \A n \in 1..Len(fl_features) :
               block_code(fl_stream, n - 1) \notin {EN, <<>>}

\* C26: every feature is decoded from a closed sub-stream of exactly the
\* declared length: the sub-stream of the n-th feature has that many bytes,
\* the feature is what the decoder gives on those bytes alone, after the
\* feature the cursor is 4 + length bytes past where the feature began
\* whatever its decoder consumed, the features are in the order of the
\* stream, and the loop ends at the first b'EN' or at the end of the stream.
C26_FeaturesOnClosedSubStreams ==
    /\ \A n \in 1..Len(fl_features) :
           /\ Len(block_body(fl_stream, n - 1))
                  = read_short(fl_stream, block_start(fl_stream, n - 1) + 2).val
           /\ fl_features[n] =
                  map_to_fn(block_code(fl_stream, n - 1),
                            block_body(fl_stream, n - 1), fl_version)
           /\ n = Len(fl_features) /\ flpc = "loop" =>
                  /\ fl_prev = block_start(fl_stream, n - 1)
                  /\ fl_pos = fl_prev + 4
                         + read_short(fl_stream, fl_prev + 2).val
    /\ loop_ended_at_first_end

\* what the code does: every feature is what its decoder gives on the bytes
\* that stream.read(len_block) returned, which are the declared length or,
\* in a block that the stream ends in, the bytes that are left; the cursor
\* is after those bytes, the features are in the order of the stream, and
\* the loop ends at the first b'EN' or at the end of the stream
FeaturesOnBytesRead ==
    /\ \A n \in 1..Len(fl_features) :
           /\ Len(block_body(fl_stream, n - 1))
                  = Min(read_short(fl_stream,
                                   block_start(fl_stream, n - 1) + 2).val,
                        Len(fl_stream) - (block_start(fl_stream, n - 1) + 4))
           /\ fl_features[n] =
                  map_to_fn(block_code(fl_stream, n - 1),
                            block_body(fl_stream, n - 1), fl_version)
           /\ n = Len(fl_features) /\ flpc = "loop" =>
                  /\ fl_prev = block_start(fl_stream, n - 1)
                  /\ fl_pos = fl_prev + 4 + Len(block_body(fl_stream, n - 1))
    /\ loop_ended_at_first_end

\* two features are read, each from a body longer than what its decoder
\* reads, the first body holding the bytes of b'EN', and the loop has ended
\* at the b'EN' that follows the second, before the end of the stream
TwoFeaturesThenEnd ==
    /\ flpc = "done"
    /\ Len(fl_features) = 2
    /\ block_body(fl_stream, 0) = <<3, 69, 78>>
    /\ fl_features[1].code = PN /\ fl_features[1].val = <<3>>
    /\ block_body(fl_stream, 1) = <<1, 7, 7>>
    /\ fl_features[2].code = SU /\ fl_features[2].val = <<TRUE>>
    /\ fl_pos < Len(fl_stream)

\* the SN decoder is given the version read at the head of the stream: from
\* version 131 on the fifth byte of the block gives sus and d2
SnFeatureReadAtVersion ==
    /\ Len(fl_features) = 1 /\ fl_features[1].code = SN
    /\ fl_version = 200
    /\ fl_features[1].val.d2 = 31 /\ fl_features[1].val.sus = 1

\* a decoder that needs more bytes than its block holds raises at the end
\* of the block: the bytes of the block that follows are not read
ShortBodyRaises ==
    /\ flpc = "struct.error"
    /\ block_code(fl_stream, Len(fl_features)) = X1
    /\ block_body(fl_stream, Len(fl_features)) = <<5, 0>>
    /\ block_whole(fl_stream, Len(fl_features) + 2)

\* a block that the stream ends in is decoded from the bytes that are left:
\* the SU feature of such a block is appended, and the cursor, at the end of
\* the stream, is less than 4 + length past the start of the block
LastBlockCutShort ==
    /\ Len(fl_features) >= 1
    /\ ~block_whole(fl_stream, Len(fl_features))
    /\ fl_features[Len(fl_features)].code = SU
    /\ fl_pos = Len(fl_stream)
    /\ fl_pos < fl_prev + 4 + read_short(fl_stream, fl_prev + 2).val

\* ---------------------------------------------------------------------
\* The order of the subsong and pattern loops of load_from_stream.

\* the seeks of the loop over the table f in this load
seeks_of(f) == Cardinality({i \in 1..Len(mod_seeks) : mod_seeks[i][1] = f})

\* the subsongs of the SONG blocks of the stream in the order of the live
\* pointers of the module m
subsongs_in_table_order(m, s) ==
    [j \in 1..Len(live_pointers(m.subsong_ptr)) |->
        subsong_at(m, s, seek(s, live_pointers(m.subsong_ptr)[j])).sub]

\* the rows of the pattern p have the size given by its subsong in subs
rows_sized_by_subsong(p, subs) ==
    /\ p.subsong + 1 <= Len(subs)
    /\ Len(p.data) = subs[p.subsong + 1].pattern_length
    /\ \A k \in 1..Len(p.data) :
           Len(p.data[k].effects) = subs[p.subsong + 1].effect_columns[p.channel + 1]

\* the pattern loop has begun
patterns_begun == modpc \in {"patterns", "done"} \/ seeks_of("patterns") > 0

\* C27: in a load of a file of version >= 95 every SONG block is decoded
\* before any pattern block: no seek to a subsong follows a seek to a
\* pattern, and when the pattern loop begins every subsong of the pointer
\* table is in the list; a decoded pattern of subsong s has the pattern
\* length of subsongs[s] and the effect columns of its channel there; the
\* subsong of the INFO block is first and the subsongs of the SONG blocks
\* follow in the order of the pointer table (a module that was loaded
\* before keeps, between the two, the subsongs that the earlier load
\* appended: the whole list is stated).
C27_SubsongsBeforePatterns ==
    /\ \A i \in 1..Len(mod_seeks) : \A j \in (i + 1)..Len(mod_seeks) :
           ~(mod_seeks[i][1] = "patterns" /\ mod_seeks[j][1] = "subsongs")
    /\ patterns_begun /\ mod_self.meta.version >= 95 =>
           /\ seeks_of("subsongs") = Len(live_pointers(mod_self.subsong_ptr))
           /\ mod_new.subsongs =
                  <<load_head(FurnaceModule, mod_stream).m.subsongs[1]>>
                      \o subsongs_in_table_order(mod_new, mod_stream)
           /\ mod_self.subsongs =
                  <<load_head(mod_before, mod_stream).m.subsongs[1]>>
                      \o Tail(mod_before.subsongs)
                      \o subsongs_in_table_order(mod_new, mod_stream)
    /\ \A k \in (Len(mod_before.patterns) + 1)..Len(mod_self.patterns) :
           rows_sized_by_subsong(mod_self.patterns[k], mod_self.subsongs)
    /\ \A k \in 1..Len(mod_new.patterns) :
           rows_sized_by_subsong(mod_new.patterns[k], mod_new.subsongs)

\* a file with two SONG blocks, the longer one first in the table, and a
\* pattern of subsong 1 first in the pattern table: the pattern has the
\* three rows of two effects of the longer subsong
C27_Witness ==
    /\ modpc = "done"
    /\ mod_loads = 1
    /\ Len(mod_self.subsongs) = 3
    /\ mod_self.subsongs[2].pattern_length = 3
    /\ mod_self.subsongs[3].pattern_length = 2
    /\ Len(mod_self.patterns) = 2
    /\ mod_self.patterns[1].subsong = 1
    /\ Len(mod_self.patterns[1].data) = 3
    /\ Len(mod_self.patterns[1].data[1].effects) = 2
    /\ mod_self.patterns[2].subsong = 0
    /\ Len(mod_self.patterns[2].data) = 2

\* a module below version 127 holds an instrument that the legacy load has
\* decoded, with the features of its version
LegacyInstrumentDecoded ==
    /\ mod_self.meta.version < 127 /\ Len(mod_self.instruments) >= 1
    /\ mod_self.instruments[1].st = "ok"
    /\ feature_codes(mod_self.instruments[1])
           = format_0_feature_codes(mod_self.instruments[1].version)

\* a second load, at version 95 or above, into a module that held extra
\* subsongs: they stay between subsong 0 and the subsongs this load appends
EarlierSubsongsBetween ==
    /\ mod_loads = 2 /\ modpc = "done" /\ mod_self.meta.version >= 95
    /\ Len(mod_before.subsongs) >= 2
    /\ Len(live_pointers(mod_self.subsong_ptr)) >= 1
    /\ Len(mod_self.subsongs) = Len(mod_before.subsongs)
                                    + Len(live_pointers(mod_self.subsong_ptr))

\* the same pattern block after the shorter subsong: it is read with the
\* two rows of one effect of the subsong that is second in the list
PatternSizedByListedSubsong ==
    /\ mod_loads = 1
    /\ Len(mod_self.subsongs) = 3
    /\ mod_self.subsongs[2].pattern_length = 2
    /\ Len(mod_self.patterns) = 1
    /\ mod_self.patterns[1].subsong = 1
    /\ Len(mod_self.patterns[1].data) = 2

\* a pattern of subsong 1 in a file without SONG blocks is not decoded
PatternWithoutItsSubsong ==
    /\ modpc = "error"
    /\ mod_loads = 1
    /\ mod_self.meta.version >= 95
    /\ Len(mod_self.subsongs) = 1
    /\ seeks_of("patterns") = 1
    /\ mod_self.patterns = <<>>

\* ---------------------------------------------------------------------
\* The timing header of the INFO block and of a SONG block.

\* the stored timing header of a block at offset i of the stream: timebase,
\* two speeds, arpeggio speed, clock rate, pattern length, and, after the
\* length of the orders, the highlight pair
timing_header(s, i) == bytes_at(s, i + 8, 10) \o bytes_at(s, i + 20, 2)

\* the timing values decoded from such a header
timing_values(sub) ==
    <<sub.timing.timebase, sub.timing.speed, sub.timing.arp_speed,
      sub.timing.clock_speed, sub.pattern_length, sub.timing.highlight>>

\* the SONG blocks of the pointer table whose timing header is that of the
\* INFO block, by their place in the table
same_header_songs(m, s) ==
    {j \in 1..Len(live_pointers(m.subsong_ptr)) :
        timing_header(s, seek(s, live_pointers(m.subsong_ptr)[j]))
            = timing_header(s, seek(s, m.song_info_ptr))}

\* the subsongs of a new module are read
subsongs_read == modpc \in {"patterns", "done"} /\ mod_new.meta.version >= 95

\* C28: the same stored timing header decodes to equal timing values from
\* the INFO block (subsong 0) and from a SONG block; the timebase is the
\* stored byte plus one in both.
C28_SameHeaderSameTiming ==
    subsongs_read =>
        \A j \in same_header_songs(mod_new, mod_stream) :
            /\ timing_values(mod_new.subsongs[1 + j])
                   = timing_values(mod_new.subsongs[1])
            /\ mod_new.subsongs[1 + j].timing.timebase =
                   mod_stream[seek(mod_stream,
                                   live_pointers(mod_new.subsong_ptr)[j]) + 9] + 1

\* what the code does: the values but the timebase are equal; the timebase
\* of subsong 0 is the stored byte plus one, that of a SONG block the stored
\* byte
TimebaseOfSongAsStored ==
    subsongs_read =>
        /\ mod_new.subsongs[1].timing.timebase =
               mod_stream[seek(mod_stream, mod_new.song_info_ptr) + 9] + 1
        /\ \A j \in 1..Len(live_pointers(mod_new.subsong_ptr)) :
               mod_new.subsongs[1 + j].timing.timebase =
                   mod_stream[seek(mod_stream,
                                   live_pointers(mod_new.subsong_ptr)[j]) + 9]
        /\ \A j \in same_header_songs(mod_new, mod_stream) :
               /\ Tail(timing_values(mod_new.subsongs[1 + j]))
                      = Tail(timing_values(mod_new.subsongs[1]))
               /\ mod_new.subsongs[1 + j].timing.timebase + 1
                      = mod_new.subsongs[1].timing.timebase

\* the stored timebase byte 0 of a SONG block with the header of the INFO
\* block is decoded as timebase 0, that of the INFO block as timebase 1
SongTimebaseZero ==
    /\ subsongs_read
    /\ 1 \in same_header_songs(mod_new, mod_stream)
    /\ mod_new.subsongs[1].timing.timebase = 1
    /\ mod_new.subsongs[2].timing.timebase = 0

\* ---------------------------------------------------------------------
\* The SN (SNES) feature block (instrument.py __load_sn_block).

SnVersions == {130, 131}

\* the envelope bytes, every third byte, two gains, with and without a
\* fifth byte; and blocks that end before the fourth byte
SnBlocks ==
    { <<18, b2, b3, b4>> \o t :
        b2 \in {52, 255}, b3 \in 0..255, b4 \in {5, 127},
        t \in {<<>>, <<191>>} }
    \cup { <<>>, <<18, 52, 4>> }

SnInit ==
    /\ OthersIdle("sn")
    /\ sn_stream \in SnBlocks
    /\ sn_version \in SnVersions
    /\ sn_feat = [st |-> "idle"]
    /\ snpc = "call"

SnLoad ==
    /\ snpc = "call"
    /\ sn_feat' = load_sn_block(sn_stream, sn_version)
    /\ snpc' = "done"
    /\ UNCHANGED <<sn_stream, sn_version>>
    /\ UNCHANGED nonSnVars

SnNext == SnLoad

SnSpec == SnInit /\ [][SnNext]_vars

\* the block holds the bytes the decoder of this version reads
sn_block_whole == Len(sn_stream) >= (IF sn_version >= 131 THEN 5 ELSE 4)

\* C29: the SN decoder succeeds for every value of its four header bytes;
\* the gain mode is DIRECT (0) whenever the low three bits of the third
\* byte are below 4 and is that field (4..7) otherwise, whatever the
\* use-envelope and sustain bits of the byte; it never fails with an unknown
\* gain mode.
C29_GainModeFromField ==
    snpc = "done" /\ sn_block_whole =>
        /\ sn_feat.st = "ok"
        /\ sn_feat.val.gain_mode =
               (IF sn_stream[3] % 8 < 4 THEN 0 ELSE sn_stream[3] % 8)

\* what the code does: the test is made on the whole third byte, so a field
\* of 1..3 under a use-envelope or sustain bit (or any higher bit) is
\* given to GainMode and raises ValueError
GainModeFromByte ==
    snpc = "done" /\ sn_block_whole =>
        IF sn_stream[3] >= 4 /\ sn_stream[3] % 8 \in {1, 2, 3}
        THEN sn_feat.st = "ValueError"
        ELSE /\ sn_feat.st = "ok"
             /\ sn_feat.val.gain_mode =
                    (IF sn_stream[3] % 8 < 4 THEN 0 ELSE sn_stream[3] % 8)
             /\ sn_feat.val.use_env = ((sn_stream[3] \div 16) % 2 = 1)

\* the use-envelope bit with the gain-mode field 1: ValueError
UnknownGainModeRaised ==
    /\ snpc = "done" /\ sn_block_whole
    /\ sn_stream[3] = 17 /\ sn_feat.st = "ValueError"

\* the field 0 under the use-envelope and sustain bits is DIRECT, the field
\* 5 is DEC_LOG
GainModeUnderEnvelopeBits ==
    /\ snpc = "done" /\ sn_block_whole
    /\ sn_stream[3] = 24 + 5
    /\ sn_feat.st = "ok" /\ sn_feat.val.gain_mode = 5 /\ sn_feat.val.use_env

\* ---------------------------------------------------------------------
\* pattern_to_sequence (src/chipchune/utils/conversion.py)

\* InterNote: the members __, C_, Cs .. B_, Off, OffRel, Rel, Echo are
\* numbered from 1 by enum.auto()
InterNote_none == 1

\* furnace_note_to_internote(note)
furnace_note_to_internote(note) ==
    IF note = Note_none THEN InterNote_none
    ELSE IF note = Note_C THEN 2
    ELSE IF note \in 1..11 THEN note + 2
    ELSE IF note = Note_OFF THEN 14
    ELSE IF note = Note_OFF_REL THEN 15
    ELSE 16

SequenceEntry(note, length, volume, octave, instrument, effects) ==
    [note |-> note, length |-> length, volume |-> volume, octave |-> octave,
     instrument |-> instrument, effects |-> effects]

\* if volume == 65535: volume = last_volume
sequence_volume(row, last_volume) ==
    IF row.volume = UNSET THEN last_volume ELSE row.volume

\* the entry made of the row i
sequence_entry(row, last_volume) ==
    SequenceEntry(furnace_note_to_internote(row.note), 1,
                  sequence_volume(row, last_volume), row.octave,
                  IF row.instrument = UNSET THEN -1 ELSE row.instrument,
                  IF row.effects = <<<<UNSET, UNSET>>>> THEN <<>>
                  ELSE row.effects)

\* the body of the for loop with a blank row always appended as an entry
sequence_step_blank_appended(converted, row, last_volume) ==
    Append(converted, sequence_entry(row, last_volume))

\* the body of the for loop: converted after the row
sequence_step(converted, row, last_volume) ==
    IF furnace_note_to_internote(row.note) = InterNote_none /\ Len(converted) # 0
    THEN [converted EXCEPT ![Len(converted)].length = @ + 1]
    ELSE Append(converted, sequence_entry(row, last_volume))

MaxRows == 4

\* rows: blank with nothing set; blank with a volume; C with instrument and
\* volume unset; C# with everything set; the note off
SeqRows ==
    { FurnaceRow(Note_none, 0, UNSET, UNSET, <<<<UNSET, UNSET>>>>),
      FurnaceRow(Note_none, 0, 3, 32, <<<<UNSET, UNSET>>>>),
      FurnaceRow(Note_C, 4, UNSET, UNSET, <<<<UNSET, UNSET>>>>),
      FurnaceRow(1, 2, 0, 64, <<<<15, 1>>>>),
      FurnaceRow(Note_OFF, 0, UNSET, UNSET, <<<<UNSET, 0>>>>) }

SeqInit ==
    /\ OthersIdle("seq")
    /\ seq_data \in SeqsUpTo(SeqRows, MaxRows)
    /\ seq_i = 0
    /\ seq_converted = <<>>
    /\ seq_last_volume = -1
    /\ seqpc = "loop"

\* one turn of `for i in pattern.data`
SeqRow ==
    /\ seqpc = "loop"
    /\ seq_i < Len(seq_data)
    /\ seq_i' = seq_i + 1
    /\ seq_converted' =
           sequence_step(seq_converted, seq_data[seq_i + 1], seq_last_volume)
    /\ seq_last_volume' = sequence_volume(seq_data[seq_i + 1], seq_last_volume)
    /\ UNCHANGED <<seq_data, seqpc>>
    /\ UNCHANGED nonSeqVars

\* return converted
SeqReturn ==
    /\ seqpc = "loop"
    /\ seq_i = Len(seq_data)
    /\ seqpc' = "done"
    /\ UNCHANGED <<seq_data, seq_i, seq_converted, seq_last_volume>>
    /\ UNCHANGED nonSeqVars

SeqNext == SeqRow \/ SeqReturn

SeqSpec == SeqInit /\ [][SeqNext]_vars

\* the rows among the first n that start an entry: the first row, and every
\* row with a note
entry_starts(data, n) ==
    {j \in 1..n : j = 1 \/ data[j].note # Note_none}

\* the sum of the lengths of the entries
RECURSIVE sum_lengths(_, _)
sum_lengths(converted, k) ==
    IF k = 0 THEN 0 ELSE sum_lengths(converted, k - 1) + converted[k].length

\* C30: the lengths of the entries sum to the number of rows; every row
\* with a note starts an entry of length 1, every blank row adds 1 to the
\* last entry, a leading run of blank rows is one blank entry; an empty
\* pattern gives an empty sequence; an unset instrument is reported as -1.
C30_SequenceCoversRows ==
    /\ sum_lengths(seq_converted, Len(seq_converted)) = seq_i
    /\ Len(seq_converted) = Cardinality(entry_starts(seq_data, seq_i))
    /\ \A k \in 1..Len(seq_converted) :
           LET a == nth_of(entry_starts(seq_data, seq_i), k)
               b == IF k = Len(seq_converted) THEN seq_i + 1
                    ELSE nth_of(entry_starts(seq_data, seq_i), k + 1)
           IN  /\ seq_converted[k].length = b - a
               /\ seq_converted[k].note =
                      furnace_note_to_internote(seq_data[a].note)
               /\ (seq_converted[k].note = InterNote_none) = (seq_data[a].note = Note_none)
               /\ seq_converted[k].note = InterNote_none => k = 1
               /\ seq_converted[k].instrument =
                      (IF seq_data[a].instrument = UNSET THEN -1
                       ELSE seq_data[a].instrument)
               /\ \A j \in (a + 1)..(b - 1) : seq_data[j].note = Note_none
    /\ seqpc = "done" => seq_i = Len(seq_data)
    /\ seqpc = "done" /\ seq_data = <<>> => seq_converted = <<>>

\* two leading blank rows, a C with an unset instrument, a blank row: a
\* blank entry of length 2 and a C of length 2 with instrument -1
C30_Witness ==
    /\ seqpc = "done"
    /\ Len(seq_data) = 4
    /\ seq_data[1].note = Note_none /\ seq_data[2].note = Note_none
    /\ seq_data[3].note = Note_C /\ seq_data[3].instrument = UNSET
    /\ seq_data[4].note = Note_none
    /\ Len(seq_converted) = 2
    /\ seq_converted[1].note = InterNote_none /\ seq_converted[1].length = 2
    /\ seq_converted[2].note = 2 /\ seq_converted[2].length = 2
    /\ seq_converted[2].instrument = -1

\* the empty pattern gives the empty sequence
EmptyPatternEmptySequence ==
    seqpc = "done" /\ seq_data = <<>> /\ seq_converted = <<>>

====
